---- MODULE Spec2Model ----
(***************************************************************************)
(* Payment compliance service (src/main1.py): the validation queue, its    *)
(* background worker, the processing statistics and the compliance         *)
(* evaluator the worker calls.                                             *)
(*                                                                         *)
(* Scheduling.  add_to_queue, validate_batch, get_queue_status and         *)
(* list_queue are `async def` handlers and process_message_from_queue is   *)
(* an `async def` background task with no await in its body: all of them   *)
(* run on the one event loop and are atomic with respect to each other.    *)
(* get_statistics is a plain `def` handler: the framework runs it on a     *)
(* thread pool, so it may read PROCESSING_STATS between any two            *)
(* statements of a worker run; it reads nothing of a message.  The worker  *)
(* is therefore modelled with one step ending at each PROCESSING_STATS     *)
(* write (pc names the next source line), the event-loop handlers are      *)
(* enabled only while no run is in progress on the event loop and          *)
(* GetStatistics is enabled always.  upload_rulebook is an `async def`     *)
(* handler that stores the rulebook, then waits in the synchronous         *)
(* extraction call and only then adds the rules: it is modelled with one   *)
(* step ending at the store, one at the return of the extraction and one   *)
(* for each write of RULES_LIBRARY.  The plain `def` readers               *)
(* get_statistics and list_rulebooks run between them, and a reader itself *)
(* may be suspended between any two of its reads of the shared dicts: with *)
(* uploads going on it is modelled one read a step, and an iteration over  *)
(* a dict that has changed size raises RuntimeError, answered 500.  In the *)
(* queue alone only PROCESSING_STATS changes, which get_statistics copies  *)
(* in one read, so there GetStatistics is one step.                        *)
(*                                                                         *)
(* Eight specifications.  Spec is the queue with a collaborator that       *)
(* answers or raises; SpecNoReply adds a collaborator that does not        *)
(* respond to a call, which the client's request timeout then ends, and    *)
(* makes the steps of a worker run weakly fair;                            *)
(* SpecRulebook is the rulebook upload and the immediate validation of     *)
(* src/main1.py, together with the functions of the other                  *)
(* variants of the service that differ from it: extract_rules_from_pdf     *)
(* and analyze_pacs008_payment of src/main2.py and ai_validate_payment of  *)
(* src/main4.py, one call at a time; SpecService is src/main1.py with the  *)
(* queue, the worker, the upload and the validation together, for one      *)
(* scheme; SpecReaders is the upload and the submission of src/main1.py    *)
(* with get_statistics and list_rulebooks reading meanwhile; SpecMain is   *)
(* the upload, the deletion and the immediate validation of src/main.py;   *)
(* SpecMain2 is the upload of src/main2.py and its readers; SpecParse is   *)
(* parse_pacs008_xml of src/main2.py and src/main4.py applied to messages. *)
(***************************************************************************)
EXTENDS Integers, Sequences, FiniteSets, TLC

\* ------------------------------------------------------------- bounds
\* MESSAGE_QUEUE = deque(maxlen=1000), src/main1.py:62, scaled down.
QueueMaxLen == 2
\* Jobs submitted in one behaviour (submit and submitBatch together).
MaxJobs == 3
\* Last clock second (ids carry the second of submission).
MaxClock == 1
\* Records in one batch.
MaxBatch == 2
\* Rules the library holds for one scheme.
MaxRules == 2
\* main2.py: rules in the SEPA library from which no upload is taken: an
\* upload is taken, with the 15 default rules or with extracted ones, while
\* the library holds fewer.
Main2MaxRules == 2

\* ------------------------------------------------------------- program constants
\* analyze_without_ai: amount > 12500.0
PurposeThreshold == 12500
\* upload_rulebook: len(rulebook_text) < 100
MinTextLength == 100
\* main2.py extract_rules_from_pdf: chunk_size = 12000
ChunkSize == 12000
\* main2.py extract_rules_from_pdf: min(len(pdf_text), 24000), text_chunks[:2]
MaxChunkedText == 24000
MaxChunks == 2

VARIABLES
    USE_AI,              \* module flag, fixed at import: True, False or ''
    UPLOADED_RULEBOOKS,  \* dict: scheme -> the uploaded rulebook
    RULES_LIBRARY,       \* dict: scheme -> dict: category -> list of Rule
    MESSAGE_QUEUE,       \* the deque of queued messages, oldest first
    PROCESSING_STATS,    \* the counters
    tasks,               \* background tasks not yet run: one list per request
    clock,               \* datetime.now(), in seconds
    pc,                  \* the run in progress on the event loop (a worker
                         \* run or an upload): its next line, or "idle"
    message,             \* worker local: index in MESSAGE_QUEUE of its message
    status,              \* worker local: "compliant" | "non-compliant"
    observed,            \* the response a pool thread is returning, if any
    reader,              \* locals of the plain def handler a pool thread is
                         \* running, if any
    reply,               \* the response the event loop is returning, if any
    upload,              \* upload_rulebook locals: the upload in progress, if any
    submitted,           \* history: jobs submitted so far
    completedRuns,       \* history: worker runs that ended completed
    failedRuns,          \* history: worker runs that ended failed
    everTerminal,        \* history: jobs that ever were completed or failed
    timedOut             \* history: jobs a run of which had its collaborator
                         \* call ended by the client's timeout

vars == <<USE_AI, UPLOADED_RULEBOOKS, RULES_LIBRARY, MESSAGE_QUEUE,
          PROCESSING_STATS, tasks, clock, pc, message, status, observed,
          reader, reply, upload, submitted, completedRuns, failedRuns,
          everTerminal, timedOut>>

\* USE_AI = OPENAI_API_KEY and OPENAI_API_KEY != "your-api-key-here", and
\* USE_AI = False when the client cannot be built: True for a key that is
\* set, False for the placeholder, and the key itself, the empty string,
\* when the key is set to nothing.  The booleans are written by their names.
UseAiValues == {"True", "False", ""}

\* if USE_AI: the empty string is falsy.
AiEnabled == USE_AI = "True"

\* A pydantic bool field takes a boolean and rejects the empty string.
IsBool(value) == value \in {"True", "False"}

\* ------------------------------------------------------------- inputs
\* A payment_data dict, by the keys the code reads.  amount: absent, JSON
\* null, a number, or a string that is no number.
Num(n) == [kind |-> "num", val |-> n]
AmountAbsent == [kind |-> "absent", val |-> 0]
AmountNull == [kind |-> "null", val |-> 0]
AmountText == [kind |-> "text", val |-> 0]

Payment(a, p, c) == [amount |-> a, purpose_code |-> p, currency |-> c]

Schemes == {"sepa", "CHAPS"}

\* The payments submitted to the queue for a scheme: for SEPA one above the
\* purpose-code threshold and one whose amount is no number, for CHAPS one
\* whose amount is no number and one whose currency is JSON null.
QueuePayments(scheme) ==
    IF scheme = "sepa"
    THEN { Payment(Num(15000), "absent", "EUR"),
           Payment(AmountText, "absent", "EUR") }
    ELSE { Payment(AmountText, "absent", "GBP"),
           Payment(Num(100), "SUPP", "null") }

\* What the external collaborator does on one call: its call raises (or its
\* response is no JSON), or it returns a list of violation candidates.
AIOutcomes ==
    { [raises |-> TRUE, violations |-> <<>>],
      [raises |-> FALSE, violations |-> <<>>],
      [raises |-> FALSE, violations |-> <<"omitted">>] }

\* ------------------------------------------------------------- evaluator
\* str.upper() on the scheme names in use.
Upper(s) == IF s = "sepa" THEN "SEPA" ELSE s

\* "SEPA" in scheme
ContainsSEPA(s) == s \in {"SEPA"}

\* float(payment.get("amount", 0)): the default 0 for an absent key, the
\* number for a number, TypeError for None, ValueError for other text.
Float(a) ==
    CASE a.kind = "absent" -> [ok |-> TRUE, val |-> 0]
      [] a.kind = "num" -> [ok |-> TRUE, val |-> a.val]
      [] OTHER -> [ok |-> FALSE, val |-> 0]

\* not payment.get("purpose_code"): absent, None and "" are falsy.
Truthy(v) == v \notin {"absent", "null", ""}

\* Mutant of AnalyzeWithoutAi: the threshold amount itself needs a purpose
\* code.
AnalyzeWithoutAiInclusive(payment, scheme) ==
    IF ContainsSEPA(Upper(scheme))
    THEN LET amount == Float(payment.amount)
         IN  IF ~amount.ok
             THEN [raised |-> TRUE, violations |-> <<>>]
             ELSE IF amount.val >= PurposeThreshold
                     /\ ~Truthy(payment.purpose_code)
                  THEN [raised |-> FALSE, violations |-> <<"high">>]
                  ELSE [raised |-> FALSE, violations |-> <<>>]
    ELSE [raised |-> FALSE, violations |-> <<>>]

\* analyze_without_ai: the violations (their severities), or raised.
AnalyzeWithoutAi(payment, scheme) ==
    IF ContainsSEPA(Upper(scheme))
    THEN LET amount == Float(payment.amount)
         IN  IF ~amount.ok
             THEN [raised |-> TRUE, violations |-> <<>>]
             ELSE IF amount.val > PurposeThreshold /\ ~Truthy(payment.purpose_code)
                  THEN [raised |-> FALSE, violations |-> <<"high">>]
                  ELSE [raised |-> FALSE, violations |-> <<>>]
    ELSE [raised |-> FALSE, violations |-> <<>>]

\* v.get("severity", "medium")
SeverityOf(v) == IF v = "omitted" THEN "medium" ELSE v

\* A dict keeps its keys in insertion order and is iterated in that order.
\* It is the function from its keys to their values that also has, under
\* the reserved key Order, the sequence of its keys as they were inserted.
Order == "#order"

\* A dict with no key, the keys of a dict, key in dict, and the keys in
\* iteration order.
EmptyDict == [k \in {Order} |-> <<>>]
Keys(dict) == DOMAIN dict \ {Order}
Has(dict, key) == key \in Keys(dict)
KeyOrder(dict) == dict[Order]

\* iter(dict.values()) and iter(dict.items()): the iterator keeps the size
\* the dict has now and its position.  No key of an iterated dict is ever
\* deleted, so the entries are KeyOrder.
DictIter(dict) == [used |-> Cardinality(Keys(dict)), pos |-> 0]

\* next(iterator): RuntimeError("dictionary changed size during iteration")
\* when the dict has not the size kept, before anything else; StopIteration
\* past the last entry; else the entry at the position.
IterRaises(iterator, dict) == Cardinality(Keys(dict)) # iterator.used
IterStops(iterator, dict) == iterator.pos >= Len(KeyOrder(dict))
IterKey(iterator, dict) == KeyOrder(dict)[iterator.pos + 1]
IterAdvance(iterator) == [iterator EXCEPT !.pos = iterator.pos + 1]

\* dict[key] = value: a new key goes last, a key already there keeps its
\* place.
DictSet(dict, key, value) ==
    [k \in DOMAIN dict \cup {key} |->
        IF k = key THEN value
        ELSE IF k = Order
        THEN (IF Has(dict, key) THEN dict[Order]
              ELSE Append(dict[Order], key))
        ELSE dict[k]]

\* The names of uploaded files.
Filenames == {"a.pdf", "b.pdf", "notes.txt"}

\* filename.endswith('.pdf')
EndsWithPdf(filename) == filename \in {"a.pdf", "b.pdf"}

\* f"uploaded-pdf:{filename}"
UploadedPdfTag(filename) ==
    CASE filename = "a.pdf" -> "uploaded-pdf:a.pdf"
      [] filename = "b.pdf" -> "uploaded-pdf:b.pdf"
      [] OTHER -> "uploaded-pdf:notes.txt"

\* rulebook_source.startswith("uploaded-pdf")
StartsWithUploadedPdf(rulebook_source) ==
    rulebook_source \in {UploadedPdfTag(f) : f \in Filenames}

\* The rule source analyze_with_pdf_rules selects for a scheme.
RulebookSource(scheme) ==
    LET scheme_upper == Upper(scheme)
    IN  IF Has(UPLOADED_RULEBOOKS, scheme_upper)
        THEN UploadedPdfTag(UPLOADED_RULEBOOKS[scheme_upper].filename)
        ELSE IF Has(RULES_LIBRARY, scheme_upper) THEN "rules-library"
        ELSE "default-rulebook"

\* Mutant of AnalyzeWithPdfRules: a failed call keeps the selected source's
\* tag.
AnalyzeWithPdfRulesFailureUntagged(payment, scheme, ai) ==
    LET r == AnalyzeWithoutAi(payment, scheme)
    IN  IF ~AiEnabled
        THEN [raised |-> r.raised, violations |-> r.violations,
              rulebook_source |-> "rule-based"]
        ELSE IF ai.raises
        THEN [raised |-> r.raised, violations |-> r.violations,
              rulebook_source |-> RulebookSource(scheme)]
        ELSE [raised |-> FALSE,
              violations |-> [i \in 1..Len(ai.violations) |->
                                 SeverityOf(ai.violations[i])],
              rulebook_source |-> RulebookSource(scheme)]

\* analyze_with_pdf_rules, given what the collaborator does on this call:
\* [raised, violations, rulebook_source].
AnalyzeWithPdfRules(payment, scheme, ai) ==
    IF ~AiEnabled
    THEN LET r == AnalyzeWithoutAi(payment, scheme)
         IN  [raised |-> r.raised, violations |-> r.violations,
              rulebook_source |-> "rule-based"]
    ELSE IF ai.raises
         THEN LET r == AnalyzeWithoutAi(payment, scheme)
              IN  [raised |-> r.raised, violations |-> r.violations,
                   rulebook_source |-> "fallback-rules"]
         ELSE [raised |-> FALSE,
               violations |-> [i \in 1..Len(ai.violations) |->
                                  SeverityOf(ai.violations[i])],
               rulebook_source |-> RulebookSource(scheme)]

\* PaymentAnalysis(..., currency=payment.get("currency", "EUR"),
\* aiPowered=USE_AI): currency is a required str, so a payment whose currency
\* is JSON null fails validation, and aiPowered is a bool, so every payment
\* fails it when USE_AI is the empty string.
PaymentAnalysisValid(payment) ==
    /\ payment.currency # "null"
    /\ IsBool(USE_AI)

\* Whether the worker's try body raises for a message, given what the
\* collaborator does: analyze_with_pdf_rules raises, or PaymentAnalysis does.
EvalRaises(msg, ai) ==
    \/ AnalyzeWithPdfRules(msg.payment_data, msg.scheme, ai).raised
    \/ ~PaymentAnalysisValid(msg.payment_data)

\* Mutant of StatusOf: one violation is let through.
StatusOfOneViolationPasses(violations) ==
    IF Len(violations) <= 1 THEN "compliant" ELSE "non-compliant"

\* status = "compliant" if len(violations) == 0 else "non-compliant"
StatusOf(violations) ==
    IF Len(violations) = 0 THEN "compliant" ELSE "non-compliant"

\* confidence in the worker, in tenths.
WorkerConfidence(rulebook_source) ==
    IF StartsWithUploadedPdf(rulebook_source) THEN 995 ELSE 990

\* ------------------------------------------------------------- queue
NoResult ==
    [set |-> FALSE, status |-> "", violations |-> <<>>,
     rulebookSource |-> "", confidence |-> 0]

\* PaymentAnalysis(...).dict() as the worker builds it.
MakeResult(r) ==
    [set |-> TRUE, status |-> StatusOf(r.violations),
     violations |-> r.violations, rulebookSource |-> r.rulebook_source,
     confidence |-> WorkerConfidence(r.rulebook_source)]

\* f"MSG_{now:%Y%m%d_%H%M%S}_{len(MESSAGE_QUEUE)}"
MsgId(now, queue) == [kind |-> "MSG", ts |-> now, n |-> Len(queue)]

\* f"BATCH_{now:%Y%m%d_%H%M%S}" and f"{batch_id}_{idx+1:03d}"
BatchMsgId(now, idx) == [kind |-> "BATCH", ts |-> now, n |-> idx + 1]

\* The queued_message dict; uid and runs are history (which submission this
\* is, how many worker runs took it), batch_id is -1 where the key is absent.
QueuedMessage(uid, id, scheme, payment, batch_id) ==
    [uid |-> uid, id |-> id, scheme |-> scheme, status |-> "pending",
     payment_data |-> payment, result |-> NoResult, error |-> FALSE,
     processedAt |-> -1, batch_id |-> batch_id, runs |-> 0]

\* Mutant of DequeAppend: a full deque drops its rightmost item.
DequeAppendDropsNewest(queue, m) ==
    IF Len(queue) >= QueueMaxLen
    THEN Append(SubSeq(queue, 1, Len(queue) - 1), m)
    ELSE Append(queue, m)

\* deque(maxlen=QueueMaxLen).append: a full deque drops its leftmost item.
DequeAppend(queue, m) ==
    IF Len(queue) >= QueueMaxLen
    THEN Append(SubSeq(queue, 2, Len(queue)), m)
    ELSE Append(queue, m)

\* Mutant of SetQueueSize: total_processed recounted from the queue.
SetQueueSizeRecounting(stats, queue) ==
    [stats EXCEPT
        !.queue_size = Len(queue),
        !.total_processed =
            Cardinality({i \in 1..Len(queue) : queue[i].status = "completed"})]

\* PROCESSING_STATS["queue_size"] = len(MESSAGE_QUEUE)
SetQueueSize(stats, queue) == [stats EXCEPT !.queue_size = Len(queue)]

\* for msg in MESSAGE_QUEUE: if msg["id"] == message_id: the first match, 0
\* when there is none.
FindMessage(queue, message_id) ==
    IF \E i \in 1..Len(queue) : queue[i].id = message_id
    THEN CHOOSE i \in 1..Len(queue) :
            /\ queue[i].id = message_id
            /\ \A j \in 1..(i - 1) : queue[j].id # message_id
    ELSE 0

Terminal == {"completed", "failed"}

hist == <<submitted, completedRuns, failedRuns, everTerminal, timedOut>>
config == <<USE_AI, UPLOADED_RULEBOOKS, RULES_LIBRARY>>
worker == <<pc, message, status>>

\* What a call that only answers leaves alone.
queueVars == <<MESSAGE_QUEUE, PROCESSING_STATS, tasks, clock, pc, message,
               status, upload, hist>>

Init ==
    /\ USE_AI \in UseAiValues
    /\ UPLOADED_RULEBOOKS = EmptyDict
    /\ RULES_LIBRARY = EmptyDict
    /\ MESSAGE_QUEUE = <<>>
    /\ PROCESSING_STATS =
         [total_processed |-> 0, compliant |-> 0, non_compliant |-> 0,
          processing |-> 0, queue_size |-> 0]
    /\ tasks = <<>>
    /\ clock = 0
    /\ pc = "idle"
    /\ message = 0
    /\ status = ""
    /\ observed = <<>>
    /\ reader = <<>>
    /\ reply = <<>>
    /\ upload = <<>>
    /\ submitted = 0
    /\ completedRuns = 0
    /\ failedRuns = 0
    /\ everTerminal = {}
    /\ timedOut = {}

\* The clock reaches the next second.
Tick ==
    /\ clock < MaxClock
    /\ clock' = clock + 1
    /\ observed' = <<>>
    /\ UNCHANGED reader
    /\ UNCHANGED <<config, reply, upload, MESSAGE_QUEUE, PROCESSING_STATS, tasks,
                   worker, hist>>

\* POST /api/queue/add
add_to_queue(payment, request_scheme) ==
    /\ pc = "idle"
    /\ submitted < MaxJobs
    /\ LET scheme == Upper(request_scheme)
           message_id == MsgId(clock, MESSAGE_QUEUE)
           queued_message ==
               QueuedMessage(submitted + 1, message_id, scheme, payment, -1)
           queue == DequeAppend(MESSAGE_QUEUE, queued_message)
       IN  /\ MESSAGE_QUEUE' = queue
           /\ PROCESSING_STATS' = SetQueueSize(PROCESSING_STATS, queue)
           /\ tasks' = Append(tasks, <<message_id>>)
    /\ submitted' = submitted + 1
    /\ observed' = <<>>
    /\ UNCHANGED reader
    /\ UNCHANGED <<config, reply, upload, clock, worker, completedRuns,
                   failedRuns, everTerminal, timedOut>>

\* Mutant of BatchAppended: only the first record carries the batch id.
RECURSIVE BatchAppendedFirstTagged(_, _, _, _, _, _)
BatchAppendedFirstTagged(queue, payments, scheme, now, uid0, k) ==
    IF k = 0 THEN queue
    ELSE DequeAppend(
             BatchAppendedFirstTagged(queue, payments, scheme, now, uid0, k - 1),
             QueuedMessage(uid0 + k, BatchMsgId(now, k - 1), scheme,
                           payments[k], IF k = 1 THEN now ELSE -1))

\* The queue after validate_batch's loop has appended payments[1..k].
RECURSIVE BatchAppended(_, _, _, _, _, _)
BatchAppended(queue, payments, scheme, now, uid0, k) ==
    IF k = 0 THEN queue
    ELSE DequeAppend(
             BatchAppended(queue, payments, scheme, now, uid0, k - 1),
             QueuedMessage(uid0 + k, BatchMsgId(now, k - 1), scheme,
                           payments[k], now))

\* POST /api/validate/batch
validate_batch(payments, scheme) ==
    /\ pc = "idle"
    /\ submitted + Len(payments) <= MaxJobs
    /\ LET queue == BatchAppended(MESSAGE_QUEUE, payments, scheme, clock,
                                  submitted, Len(payments))
       IN  /\ MESSAGE_QUEUE' = queue
           /\ PROCESSING_STATS' = SetQueueSize(PROCESSING_STATS, queue)
           /\ tasks' = Append(tasks, [i \in 1..Len(payments) |->
                                         BatchMsgId(clock, i - 1)])
    /\ submitted' = submitted + Len(payments)
    /\ observed' = <<>>
    /\ UNCHANGED reader
    /\ UNCHANGED <<config, reply, upload, clock, worker, completedRuns,
                   failedRuns, everTerminal, timedOut>>

\* ------------------------------------------------------------- worker
\* message["status"] = "processing"
MarkProcessing(msg) == [msg EXCEPT !.status = "processing"]

\* message["result"] = result.dict(); message["status"] = "completed";
\* message["processedAt"] = now
MarkCompleted(msg, r, now) ==
    [msg EXCEPT !.result = MakeResult(r), !.status = "completed",
                !.processedAt = now]

\* Mutant of MarkFailed: the message is put back for a retry.
MarkFailedRequeued(msg) == [msg EXCEPT !.status = "pending", !.error = TRUE]

\* except: message["status"] = "failed"; message["error"] = str(e)
MarkFailed(msg) == [msg EXCEPT !.status = "failed", !.error = TRUE]

\* PROCESSING_STATS["processing"] += 1
StatsStart(stats) == [stats EXCEPT !.processing = @ + 1]

\* Mutant of StatsDone: the run is taken out of the in-flight count twice.
StatsDoneTwice(stats) == [stats EXCEPT !.processing = @ - 2]

\* PROCESSING_STATS["processing"] -= 1, on the completed path
StatsDone(stats) == [stats EXCEPT !.processing = @ - 1]

\* Mutant of StatsTotal: the increment is lost.
StatsTotalLost(stats) == [stats EXCEPT !.total_processed = @]

\* PROCESSING_STATS["total_processed"] += 1
StatsTotal(stats) == [stats EXCEPT !.total_processed = @ + 1]

\* Mutant of StatsOutcome: a non-compliant result is not counted.
StatsOutcomeCompliantOnly(stats, st) ==
    IF st = "compliant"
    THEN [stats EXCEPT !.compliant = @ + 1]
    ELSE stats

\* if status == "compliant": compliant += 1 else: non_compliant += 1
StatsOutcome(stats, st) ==
    IF st = "compliant"
    THEN [stats EXCEPT !.compliant = @ + 1]
    ELSE [stats EXCEPT !.non_compliant = @ + 1]

\* Mutant of StatsFailed: the failed run is counted as processed.
StatsFailedCounted(stats) ==
    [stats EXCEPT !.processing = @ - 1, !.total_processed = @ + 1,
                  !.non_compliant = @ + 1]

\* except: PROCESSING_STATS["processing"] -= 1
StatsFailed(stats) == [stats EXCEPT !.processing = @ - 1]

\* tasks without the first task of request i.
TaskTaken(i) ==
    IF Len(tasks[i]) = 1
    THEN SubSeq(tasks, 1, i - 1) \o SubSeq(tasks, i + 1, Len(tasks))
    ELSE [tasks EXCEPT ![i] = Tail(@)]

\* A background task starts, lines 218-229: find the message; return if it
\* is gone, else mark it processing and count it in flight.
WorkerStart(i) ==
    /\ pc = "idle"
    /\ LET message_id == Head(tasks[i])
           idx == FindMessage(MESSAGE_QUEUE, message_id)
       IN  /\ tasks' = TaskTaken(i)
           /\ IF idx = 0
              THEN UNCHANGED <<MESSAGE_QUEUE, PROCESSING_STATS, worker>>
              ELSE /\ MESSAGE_QUEUE' =
                        [MESSAGE_QUEUE EXCEPT ![idx] =
                            [MarkProcessing(@) EXCEPT !.runs = @ + 1]]
                   /\ PROCESSING_STATS' = StatsStart(PROCESSING_STATS)
                   /\ message' = idx
                   /\ pc' = "l232"
                   /\ UNCHANGED status
    /\ observed' = <<>>
    /\ UNCHANGED reader
    /\ UNCHANGED <<config, reply, upload, clock, hist>>

\* lines 232-258, given how the collaborator call ends: the evaluation,
\* the result and the in-flight decrement; or, when the evaluation or
\* PaymentAnalysis raises, lines 265-268 and the run ends.
WorkerEvaluateGiven(ai) ==
    /\ LET msg == MESSAGE_QUEUE[message]
           r == AnalyzeWithPdfRules(msg.payment_data, msg.scheme, ai)
       IN  IF EvalRaises(msg, ai)
           THEN /\ MESSAGE_QUEUE' =
                     [MESSAGE_QUEUE EXCEPT ![message] = MarkFailed(@)]
                /\ PROCESSING_STATS' = StatsFailed(PROCESSING_STATS)
                /\ pc' = "idle"
                /\ failedRuns' = failedRuns + 1
                /\ UNCHANGED <<status, completedRuns>>
           ELSE /\ MESSAGE_QUEUE' =
                     [MESSAGE_QUEUE EXCEPT ![message] =
                         MarkCompleted(@, r, clock)]
                /\ PROCESSING_STATS' = StatsDone(PROCESSING_STATS)
                /\ status' = StatusOf(r.violations)
                /\ pc' = "l259"
                /\ completedRuns' = completedRuns + 1
                /\ UNCHANGED failedRuns
    /\ everTerminal' = everTerminal \cup {MESSAGE_QUEUE[message].uid}
    /\ observed' = <<>>
    /\ UNCHANGED reader
    /\ UNCHANGED <<config, reply, upload, tasks, clock, message, submitted>>

\* Lines 232-258 (or 232-268) of a run whose collaborator call returns or
\* raises at once.
WorkerEvaluate ==
    /\ pc = "l232"
    /\ \E ai \in AIOutcomes : WorkerEvaluateGiven(ai)
    /\ UNCHANGED timedOut

\* line 259
WorkerL259 ==
    /\ pc = "l259"
    /\ PROCESSING_STATS' = StatsTotal(PROCESSING_STATS)
    /\ pc' = "l260"
    /\ observed' = <<>>
    /\ UNCHANGED reader
    /\ UNCHANGED <<config, reply, upload, MESSAGE_QUEUE, tasks, clock, message,
                   status, hist>>

\* lines 260-263, and the run ends
WorkerL260 ==
    /\ pc = "l260"
    /\ PROCESSING_STATS' = StatsOutcome(PROCESSING_STATS, status)
    /\ pc' = "idle"
    /\ observed' = <<>>
    /\ UNCHANGED reader
    /\ UNCHANGED <<config, reply, upload, MESSAGE_QUEUE, tasks, clock, message,
                   status, hist>>

\* sum(len(cats) for cats in RULES_LIBRARY.values()
\*              for rules in cats.values()):
\* for every category of a scheme, the number of the scheme's categories.
RECURSIVE RulesLibrarySize(_, _)
RulesLibrarySize(library, schemes) ==
    IF schemes = {} THEN 0
    ELSE LET scheme == CHOOSE scheme \in schemes : TRUE
             cats == Cardinality(Keys(library[scheme]))
         IN  cats * cats + RulesLibrarySize(library, schemes \ {scheme})

\* {**PROCESSING_STATS, "rules_library_size": ..., "uploaded_rulebooks":
\* len(UPLOADED_RULEBOOKS), "ai_enabled": USE_AI}
Statistics ==
    [total_processed |-> PROCESSING_STATS.total_processed,
     compliant |-> PROCESSING_STATS.compliant,
     non_compliant |-> PROCESSING_STATS.non_compliant,
     processing |-> PROCESSING_STATS.processing,
     queue_size |-> PROCESSING_STATS.queue_size,
     rules_library_size |->
         RulesLibrarySize(RULES_LIBRARY, Keys(RULES_LIBRARY)),
     uploaded_rulebooks |-> Cardinality(Keys(UPLOADED_RULEBOOKS)),
     ai_enabled |-> USE_AI]

\* GET /api/statistics, a plain def: it runs on a pool thread, at any point
\* of a run in progress on the event loop.  This is the handler where no
\* upload runs: RULES_LIBRARY and UPLOADED_RULEBOOKS stay as they are, so
\* what lines 651-653 read is what they hold when line 650 copies
\* PROCESSING_STATS.  With uploads it is GetStatisticsL650 and the steps
\* after it.
GetStatistics ==
    /\ observed' = <<Statistics>>
    /\ UNCHANGED reader
    /\ reply' = <<>>
    /\ UNCHANGED <<config, queueVars>>

\* The payment lists of a batch request for a scheme.
Batches(scheme) ==
    UNION { [1..n -> QueuePayments(scheme)] : n \in 1..MaxBatch }

Next ==
    \/ Tick
    \/ \E scheme \in Schemes : \E payment \in QueuePayments(scheme) :
          add_to_queue(payment, scheme)
    \/ \E scheme \in Schemes : \E payments \in Batches(scheme) :
          validate_batch(payments, scheme)
    \/ \E i \in 1..Len(tasks) : WorkerStart(i)
    \/ WorkerEvaluate
    \/ WorkerL259
    \/ WorkerL260
    \/ GetStatistics

Spec == Init /\ [][Next]_vars

\* ------------------------------------------------------------- silent collaborator
\* openai_client.chat.completions.create(...) inside analyze_with_pdf_rules,
\* lines 326-338, is a synchronous call given no timeout argument.  While
\* the collaborator does not respond the run stays inside it (pc = "l326"),
\* and with it the event loop.
CollaboratorNeverResponds ==
    /\ pc = "l232"
    /\ AiEnabled
    /\ pc' = "l326"
    /\ observed' = <<>>
    /\ UNCHANGED reader
    /\ UNCHANGED <<config, reply, upload, MESSAGE_QUEUE, PROCESSING_STATS,
                   tasks, clock, message, status, hist>>

\* Mutant of ClientTimeout: the client is built with timeout=None.
ClientTimeoutNone == "None"

\* openai_client = OpenAI(base_url=..., api_key=...), lines 46-49: no
\* timeout argument, so the client keeps the request timeout (and the
\* retries) its library gives a client by default.
ClientTimeout == "NOT_GIVEN"

\* What a call the client's timeout ends is to analyze_with_pdf_rules: the
\* library raises its timeout error, an Exception.
TimedOut == [raises |-> TRUE, violations |-> <<>>]

\* The client's timeout ends the call the collaborator has not responded
\* to: the error raised inside the try is caught by except Exception,
\* lines 357-359, which returns analyze_without_ai(payment, scheme) tagged
\* fallback-rules, and the run goes on from line 232 with that.
CollaboratorTimesOut ==
    /\ pc = "l326"
    /\ ClientTimeout # "None"
    /\ WorkerEvaluateGiven(TimedOut)
    /\ timedOut' = timedOut \cup {MESSAGE_QUEUE[message].uid}

\* The steps a worker run in progress can take.
WorkerStep ==
    WorkerEvaluate \/ CollaboratorTimesOut \/ WorkerL259 \/ WorkerL260

NextNoReply == Next \/ CollaboratorNeverResponds \/ CollaboratorTimesOut

\* The queue with a collaborator that may never respond to a call.  A
\* background task is an async function with no await: once started it
\* runs on the event loop to its end, and the client's timeout ends a call
\* that gets no response; so a run in progress takes its next step.
SpecNoReply == Init /\ [][NextNoReply]_vars /\ WF_vars(WorkerStep)

\* ------------------------------------------------------------- rulebooks
\* What PyPDF2 makes of the uploaded bytes: the reader raises, or the pages
\* give a text of some length.  A text is told from another by its length.
PdfOutcomes ==
    { [ok |-> FALSE, text_length |-> 0],
      [ok |-> TRUE, text_length |-> 0],
      [ok |-> TRUE, text_length |-> MinTextLength - 1],
      [ok |-> TRUE, text_length |-> MinTextLength],
      [ok |-> TRUE, text_length |-> MinTextLength + 1] }

\* A rule candidate in the collaborator's response, by the keys read.
RuleCandidate(id, category, severity) ==
    [id |-> id, category |-> category, severity |-> severity]

\* What the collaborator does on the extraction call: its call raises (or
\* its response is no JSON), or it returns a list of rule candidates.
ExtractionOutcomes ==
    { [raises |-> TRUE, rules |-> <<>>],
      [raises |-> FALSE, rules |-> <<>>],
      [raises |-> FALSE,
       rules |-> <<RuleCandidate("omitted", "omitted", "omitted")>>],
      [raises |-> FALSE,
       rules |-> <<RuleCandidate("R1", "Amount Limits", "high"),
                   RuleCandidate("omitted", "omitted", "omitted")>>] }

\* f"{scheme}_{idx+1:03d}"
DefaultRuleId(scheme, idx) ==
    CASE scheme = "SEPA" /\ idx = 0 -> "SEPA_001"
      [] scheme = "SEPA" /\ idx = 1 -> "SEPA_002"
      [] scheme = "CHAPS" /\ idx = 0 -> "CHAPS_001"
      [] OTHER -> "CHAPS_002"

\* r.get(key, default)
GetOr(value, default) == IF value = "omitted" THEN default ELSE value

\* Rule(...) in extract_rules_from_text, by the fields the claims read.
MakeRule(r, idx, scheme) ==
    [id |-> GetOr(r.id, DefaultRuleId(scheme, idx)),
     scheme |-> scheme,
     category |-> GetOr(r.category, "General"),
     severity |-> GetOr(r.severity, "medium"),
     source |-> "extracted-from-pdf"]

\* extract_rules_from_text, given what the collaborator does on this call.
ExtractRulesFromText(scheme, ex) ==
    IF ~AiEnabled THEN <<>>
    ELSE IF ex.raises THEN <<>>
    ELSE [i \in 1..Len(ex.rules) |-> MakeRule(ex.rules[i], i - 1, scheme)]

\* add_rule_to_library
AddRuleToLibrary(library, rule) ==
    LET scheme == Upper(rule.scheme)
        lib == IF Has(library, scheme) THEN library
               ELSE DictSet(library, scheme, EmptyDict)
        cats == IF Has(lib[scheme], rule.category) THEN lib[scheme]
                ELSE DictSet(lib[scheme], rule.category, <<>>)
    IN  DictSet(lib, scheme,
                DictSet(cats, rule.category,
                        Append(cats[rule.category], rule)))

\* add_rule_to_library writes RULES_LIBRARY up to three times, and a pool
\* thread may read between two writes.  The next write of the call, by
\* what it has written so far: line 205 while the scheme has no dict, line
\* 209 while the category has no list, and then the append of line 211,
\* which ends the call.
AddRuleAppends(library, rule) ==
    /\ Has(library, Upper(rule.scheme))
    /\ Has(library[Upper(rule.scheme)], rule.category)

AddRuleWrite(library, rule) ==
    LET scheme == Upper(rule.scheme)
    IN  IF ~Has(library, scheme)
        THEN DictSet(library, scheme, EmptyDict)
        ELSE IF ~Has(library[scheme], rule.category)
        THEN DictSet(library, scheme,
                     DictSet(library[scheme], rule.category, <<>>))
        ELSE AddRuleToLibrary(library, rule)

\* For the bounds MaxRules and Main2MaxRules only (no handler is modelled
\* by it): the number of rules a library holds for a scheme over all its
\* categories, 0 for a scheme it does not hold.
RECURSIVE RulesHeldIn(_, _)
RulesHeldIn(cats, keys) ==
    IF keys = {} THEN 0
    ELSE LET c == CHOOSE c \in keys : TRUE
         IN  Len(cats[c]) + RulesHeldIn(cats, keys \ {c})

RulesHeld(library, scheme) ==
    IF Has(library, scheme)
    THEN RulesHeldIn(library[scheme], Keys(library[scheme]))
    ELSE 0
\* ------------------------------------------------------------- main2.py
\* A rule of create_default_sepa_rules.
DefaultRule(id, scheme, category, severity) ==
    [id |-> id, scheme |-> scheme, category |-> category,
     severity |-> severity, source |-> "default-rules"]

\* main2.py create_default_sepa_rules
CreateDefaultSepaRules(scheme) ==
    << DefaultRule("AT-T001", scheme, "Service Level", "high"),
       DefaultRule("AT-T002", scheme, "Amount Validation", "high"),
       DefaultRule("AT-T051", scheme, "Settlement", "high"),
       DefaultRule("ChrgBr-Rule", scheme, "Charges", "high"),
       DefaultRule("AT-D001", scheme, "IBAN Validation", "high"),
       DefaultRule("AT-C001", scheme, "IBAN Validation", "high"),
       DefaultRule("AT-D002", scheme, "BIC Validation", "high"),
       DefaultRule("AT-C002", scheme, "BIC Validation", "high"),
       DefaultRule("AT-P001", scheme, "Party Information", "high"),
       DefaultRule("AT-E001", scheme, "Party Information", "high"),
       DefaultRule("AT-T014", scheme, "Payment Identification", "medium"),
       DefaultRule("AT-T054", scheme, "Payment Identification", "high"),
       DefaultRule("SttlmMtd-Rule", scheme, "Settlement", "high"),
       DefaultRule("Amount-Format", scheme, "Amount Validation", "medium"),
       DefaultRule("IBAN-Format", scheme, "IBAN Validation", "high") >>

\* len(text_chunks[:2]): the chunks of 12000 characters in the first 24000.
NumChunks(text_length) ==
    LET n == IF text_length < MaxChunkedText THEN text_length
             ELSE MaxChunkedText
        chunks == (n + ChunkSize - 1) \div ChunkSize
    IN  IF chunks < MaxChunks THEN chunks ELSE MaxChunks

\* f"SEPA_{len(all_rules)+1:03d}"
Main2DefaultRuleId(n) ==
    CASE n = 0 -> "SEPA_001"
      [] n = 1 -> "SEPA_002"
      [] n = 2 -> "SEPA_003"
      [] OTHER -> "SEPA_004"

\* main2.py: Rule(...) in extract_rules_from_pdf, all_rules holding n rules.
Main2MakeRule(r, n, scheme) ==
    [id |-> GetOr(r.id, Main2DefaultRuleId(n)),
     scheme |-> scheme,
     category |-> GetOr(r.category, "General"),
     severity |-> GetOr(r.severity, "medium"),
     source |-> "extracted-from-pdf"]

\* all_rules after the rule candidates cands[1..k] of a chunk were appended.
RECURSIVE Main2Appended(_, _, _, _)
Main2Appended(all_rules, cands, k, scheme) ==
    IF k = 0 THEN all_rules
    ELSE LET before == Main2Appended(all_rules, cands, k - 1, scheme)
         IN  Append(before, Main2MakeRule(cands[k], Len(before), scheme))

\* main2.py extract_rules_from_pdf, given the text's length and what the
\* collaborator does on the call made for each chunk.
ExtractRulesFromPdf(text_length, scheme, exs) ==
    LET chunks == NumChunks(text_length)
        first == IF chunks >= 1 /\ ~exs[1].raises
                 THEN Main2Appended(<<>>, exs[1].rules, Len(exs[1].rules),
                                    scheme)
                 ELSE <<>>
        all_rules == IF chunks >= 2 /\ ~exs[2].raises
                     THEN Main2Appended(first, exs[2].rules,
                                        Len(exs[2].rules), scheme)
                     ELSE first
    IN  IF ~AiEnabled THEN CreateDefaultSepaRules(scheme)
        ELSE IF \E c \in 1..chunks : exs[c].raises
        THEN CreateDefaultSepaRules(scheme)
        ELSE IF Len(all_rules) = 0 THEN CreateDefaultSepaRules(scheme)
        ELSE all_rules

\* main2.py: a call of extract_rules_from_pdf from upload_rulebook.
extract_rules_from_pdf(text_length, exs) ==
    LET request == [text_length |-> text_length, exs |-> exs]
    IN  /\ reply' = <<[op |-> "extract_rules_from_pdf", request |-> request,
                       rules |-> ExtractRulesFromPdf(text_length, "SEPA",
                                                     exs)]>>
        /\ pc = "idle"
        /\ observed' = <<>>
        /\ UNCHANGED reader
        /\ UNCHANGED <<config, queueVars>>

\* main2.py: a Violation, by the fields the claims read.
Main2Violation(severity, rule) == [severity |-> severity, rule |-> rule]

\* main2.py analyze_without_ai: mandatory_fields, in the dict's order.
MandatoryFields ==
    << "debtor_name", "creditor_name", "debtor_iban", "creditor_iban",
       "debtor_agent", "creditor_agent" >>

\* mandatory_fields[field]
MandatoryRule(field) ==
    CASE field = "debtor_name" -> "Debtor Name (AT-P001)"
      [] field = "creditor_name" -> "Creditor Name (AT-E001)"
      [] field = "debtor_iban" -> "Debtor IBAN (AT-D001)"
      [] field = "creditor_iban" -> "Creditor IBAN (AT-C001)"
      [] field = "debtor_agent" -> "Debtor Agent BIC (AT-D002)"
      [] OTHER -> "Creditor Agent BIC (AT-C002)"

\* A payment_data dict of main2.py, by the keys analyze_without_ai reads;
\* present holds the mandatory fields that have a value.
Main2Payment(service_level, currency, charge_bearer, amount, present) ==
    [service_level |-> service_level, currency |-> currency,
     charge_bearer |-> charge_bearer, amount |-> amount,
     debtor_name |-> IF "debtor_name" \in present THEN "x" ELSE "absent",
     creditor_name |-> IF "creditor_name" \in present THEN "x" ELSE "absent",
     debtor_iban |-> IF "debtor_iban" \in present THEN "x" ELSE "",
     creditor_iban |-> IF "creditor_iban" \in present THEN "x" ELSE "null",
     debtor_agent |-> IF "debtor_agent" \in present THEN "x" ELSE "absent",
     creditor_agent |-> IF "creditor_agent" \in present THEN "x" ELSE "absent"]

\* main2.py analyze_without_ai: the violations, in the order appended.  The
\* amount check is inside try/except: pass.
Main2AnalyzeWithoutAi(payment) ==
    LET amount == Float(payment.amount)
        missing == SelectSeq(MandatoryFields,
                             LAMBDA field : ~Truthy(payment[field]))
    IN  (IF payment.service_level # "SEPA"
         THEN <<Main2Violation("high", "AT-T001: Service Level Code")>>
         ELSE <<>>)
        \o (IF payment.currency # "EUR"
            THEN <<Main2Violation("high", "AT-T002: Currency Requirement")>>
            ELSE <<>>)
        \o (IF payment.charge_bearer # "SLEV"
            THEN <<Main2Violation("high", "Charge Bearer Requirement")>>
            ELSE <<>>)
        \o (IF amount.ok /\ (amount.val < 1 \/ amount.val > 999999999)
            THEN <<Main2Violation("high", "Amount Range Validation")>>
            ELSE <<>>)
        \o [i \in 1..Len(missing) |->
               Main2Violation("high", MandatoryRule(missing[i]))]

\* main2.py analyze_pacs008_payment, given the rulebook text it is passed
\* ("" for None) and what the collaborator does.  SEPA_PACS008_RULES is not
\* defined at module level (its assignment is commented out), so reading it
\* raises NameError, outside the try.
AnalyzePacs008Payment(payment, rulebook_text, ai) ==
    IF ~AiEnabled
    THEN [raised |-> FALSE, violations |-> Main2AnalyzeWithoutAi(payment),
          rulebook_source |-> "rule-based"]
    ELSE IF rulebook_text = ""
    THEN [raised |-> TRUE, violations |-> <<>>, rulebook_source |-> ""]
    ELSE IF ai.raises
    THEN [raised |-> FALSE, violations |-> Main2AnalyzeWithoutAi(payment),
          rulebook_source |-> "fallback-rules"]
    ELSE [raised |-> FALSE,
          violations |-> [i \in 1..Len(ai.violations) |->
                             Main2Violation(SeverityOf(ai.violations[i]),
                                            "SEPA requirement")],
          rulebook_source |-> "uploaded-rulebook"]

\* main2.py: a call of analyze_pacs008_payment.
analyze_pacs008_payment(payment, rulebook_text, ai) ==
    LET request == [payment |-> payment, rulebook_text |-> rulebook_text,
                    ai |-> ai]
        r == AnalyzePacs008Payment(payment, rulebook_text, ai)
    IN  /\ reply' = <<[op |-> "analyze_pacs008_payment", request |-> request,
                       raised |-> r.raised, violations |-> r.violations,
                       rulebook_source |-> r.rulebook_source]>>
        /\ pc = "idle"
        /\ observed' = <<>>
        /\ UNCHANGED reader
        /\ UNCHANGED <<config, queueVars>>

\* The payments given to main2.py's evaluator: one that meets every check,
\* one that fails every check, and one whose amount is not numeric.
Main2Payments ==
    { Main2Payment("SEPA", "EUR", "SLEV", Num(100),
                   {MandatoryFields[i] : i \in 1..Len(MandatoryFields)}),
      Main2Payment("absent", "USD", "DEBT", AmountAbsent, {"debtor_name"}),
      Main2Payment("SEPA", "EUR", "SLEV", AmountText,
                   {MandatoryFields[i] : i \in 1..Len(MandatoryFields)}) }

\* The UPLOADED_RULEBOOKS entry, by the keys the claims read;
\* extraction_failed is history: the collaborator failed on the extraction
\* call of this upload.
RulebookEntry(filename, text_length, extraction_failed) ==
    [filename |-> filename, text_length |-> text_length,
     extraction_failed |-> extraction_failed]

\* Mutant of TextTooShort: only an empty text is refused.
TextTooShortEmptyOnly(text_length) == text_length = 0

\* not rulebook_text or len(rulebook_text) < 100
TextTooShort(text_length) ==
    text_length = 0 \/ text_length < MinTextLength

\* An HTTP response of upload_rulebook.
UploadReply(request, status_code, rules) ==
    [op |-> "upload_rulebook", request |-> request,
     status_code |-> status_code, rules |-> rules]

\* Mutant of StoreRulebook: a rulebook already stored keeps its text and
\* takes the new file's name.
StoreRulebookKeepsText(rulebooks, scheme_upper, entry) ==
    IF Has(rulebooks, scheme_upper)
    THEN DictSet(rulebooks, scheme_upper,
                 [entry EXCEPT
                     !.text_length = rulebooks[scheme_upper].text_length])
    ELSE DictSet(rulebooks, scheme_upper, entry)

\* UPLOADED_RULEBOOKS[scheme_upper] = {...}: one subscript assignment of a
\* dict built beforehand.
StoreRulebook(rulebooks, scheme_upper, entry) ==
    DictSet(rulebooks, scheme_upper, entry)

\* What analyze_with_pdf_rules reads of the uploaded rulebook of a scheme,
\* lines 282-283: its text and its filename.
NoRulebook == [filename |-> "", text_length |-> 0]

\* With the collaborator disabled the evaluation returns on line 278 and
\* reads no rulebook.
RulebookRead(scheme_upper) ==
    IF AiEnabled /\ Has(UPLOADED_RULEBOOKS, scheme_upper)
    THEN [filename |-> UPLOADED_RULEBOOKS[scheme_upper].filename,
          text_length |-> UPLOADED_RULEBOOKS[scheme_upper].text_length]
    ELSE NoRulebook

\* The extraction outcome recorded in the request of an upload that made
\* no extraction call.
NoExtraction == [raises |-> FALSE, rules |-> <<>>]

\* POST /api/upload-rulebook, lines 425-454: the file is read and refused,
\* or its rulebook is stored and the handler goes on to the extraction.
upload_rulebook(request_scheme, filename, pdf) ==
    LET request == [scheme |-> request_scheme, filename |-> filename,
                    pdf |-> pdf, ex |-> NoExtraction]
        scheme_upper == Upper(request_scheme)
        refused(status_code) ==
            /\ reply' = <<UploadReply(request, status_code, <<>>)>>
            /\ UNCHANGED <<UPLOADED_RULEBOOKS, pc, upload>>
    IN  /\ pc = "idle"
        /\ IF ~EndsWithPdf(filename) THEN refused(400)
           ELSE IF ~pdf.ok THEN refused(500)
           ELSE IF TextTooShort(pdf.text_length) THEN refused(400)
           ELSE /\ UPLOADED_RULEBOOKS' =
                     StoreRulebook(UPLOADED_RULEBOOKS, scheme_upper,
                                   RulebookEntry(filename, pdf.text_length,
                                                 FALSE))
                /\ upload' = <<[request |-> request, rules |-> <<>>,
                                added |-> 0]>>
                /\ pc' = "l458"
                /\ reply' = <<>>
        /\ observed' = <<>>
        /\ UNCHANGED reader
        /\ UNCHANGED <<USE_AI, RULES_LIBRARY, MESSAGE_QUEUE, PROCESSING_STATS,
                       tasks, clock, message, status, hist>>

\* line 458: extract_rules_from_text returns, after the collaborator's
\* answer when the collaborator is enabled.  The handler, and with it the
\* event loop, waits in this call; pool threads run meanwhile.
UploadL458(ex) ==
    /\ pc = "l458"
    /\ LET request == [upload[1].request EXCEPT !.ex = ex]
           scheme_upper == Upper(request.scheme)
           rules == ExtractRulesFromText(scheme_upper, ex)
       IN  /\ RulesHeld(RULES_LIBRARY, scheme_upper) + Len(ex.rules)
                  <= MaxRules
           /\ upload' = <<[request |-> request, rules |-> rules,
                           added |-> 0]>>
           /\ UPLOADED_RULEBOOKS' =
                  [UPLOADED_RULEBOOKS EXCEPT
                      ![scheme_upper].extraction_failed =
                          AiEnabled /\ ex.raises]
    /\ pc' = "l460"
    /\ observed' = <<>>
    /\ UNCHANGED reader
    /\ UNCHANGED <<USE_AI, RULES_LIBRARY, reply, MESSAGE_QUEUE,
                   PROCESSING_STATS, tasks, clock, message, status, hist>>

\* lines 460-478: for rule in rules: add_rule_to_library(rule), one write
\* of RULES_LIBRARY a step, and after the last rule the response.
UploadL460 ==
    /\ pc = "l460"
    /\ LET u == upload[1]
       IN  IF u.added < Len(u.rules)
           THEN LET rule == u.rules[u.added + 1]
                IN  /\ RULES_LIBRARY' = AddRuleWrite(RULES_LIBRARY, rule)
                    /\ upload' =
                         <<[u EXCEPT
                               !.added =
                                   IF AddRuleAppends(RULES_LIBRARY, rule)
                                   THEN u.added + 1 ELSE u.added]>>
                    /\ UNCHANGED <<pc, reply>>
           ELSE /\ reply' = <<UploadReply(u.request, 200, u.rules)>>
                /\ upload' = <<>>
                /\ pc' = "idle"
                /\ UNCHANGED RULES_LIBRARY
    /\ observed' = <<>>
    /\ UNCHANGED reader
    /\ UNCHANGED <<USE_AI, UPLOADED_RULEBOOKS, MESSAGE_QUEUE, PROCESSING_STATS,
                   tasks, clock, message, status, hist>>

\* The plain def handlers run on a pool thread, which the interpreter may
\* suspend between any two of its reads while the event loop writes.  Each
\* action below is one read of a shared dict; reader holds the handler's
\* locals between them.  One such handler runs at a time: two of them write
\* nothing and so do not meet.

\* An HTTP response of a plain def handler: its body, or 500 when it
\* raised.
ReaderReply(op, body) == [op |-> op, status_code |-> 200, body |-> body]
ReaderError(op) == [op |-> op, status_code |-> 500, body |-> <<>>]

\* A step of the handler in progress: it goes on with other locals, or it
\* returns a response.
ReaderGoesOn(locals) ==
    /\ reader' = <<locals>>
    /\ UNCHANGED observed

ReaderReturns(response) ==
    /\ reader' = <<>>
    /\ observed' = <<response>>

ReaderAt(op, line) ==
    /\ reader # <<>>
    /\ reader[1].op = op
    /\ reader[1].line = line

\* GET /api/rulebooks, line 641: list(UPLOADED_RULEBOOKS.keys())
ListRulebooksL641 ==
    /\ reader = <<>>
    /\ reader' = <<[op |-> "list_rulebooks", line |-> "l642",
                    keys |-> KeyOrder(UPLOADED_RULEBOOKS)]>>
    /\ observed' = <<>>
    /\ reply' = <<>>
    /\ UNCHANGED <<config, queueVars>>

\* line 642: len(UPLOADED_RULEBOOKS), and the response.
ListRulebooksL642 ==
    /\ ReaderAt("list_rulebooks", "l642")
    /\ ReaderReturns(ReaderReply("list_rulebooks",
           [uploaded_rulebooks |-> reader[1].keys,
            total |-> Cardinality(Keys(UPLOADED_RULEBOOKS))]))
    /\ UNCHANGED <<config, reply, queueVars>>

\* GET /api/statistics, line 650: {**PROCESSING_STATS, the copy.
GetStatisticsL650 ==
    /\ reader = <<>>
    /\ reader' = <<[op |-> "get_statistics", line |-> "l651",
                    stats |-> PROCESSING_STATS,
                    outer |-> DictIter(EmptyDict), scheme |-> "",
                    inner |-> DictIter(EmptyDict), total |-> 0]>>
    /\ observed' = <<>>
    /\ reply' = <<>>
    /\ UNCHANGED <<config, queueVars>>

\* line 651, sum(... for cats in RULES_LIBRARY.values() ...): the generator
\* is built over iter(RULES_LIBRARY.values()).
GetStatisticsL651 ==
    /\ ReaderAt("get_statistics", "l651")
    /\ ReaderGoesOn([reader[1] EXCEPT !.outer = DictIter(RULES_LIBRARY),
                                      !.line = "for cats"])
    /\ UNCHANGED <<config, reply, queueVars>>

\* line 651, for cats in RULES_LIBRARY.values(): the next scheme's dict, or
\* the end of the sum.
GetStatisticsForCats ==
    /\ ReaderAt("get_statistics", "for cats")
    /\ LET r == reader[1]
       IN  IF IterRaises(r.outer, RULES_LIBRARY)
           THEN ReaderReturns(ReaderError("get_statistics"))
           ELSE IF IterStops(r.outer, RULES_LIBRARY)
           THEN ReaderGoesOn([r EXCEPT !.line = "l652"])
           ELSE ReaderGoesOn([r EXCEPT
                                 !.scheme = IterKey(r.outer, RULES_LIBRARY),
                                 !.outer = IterAdvance(r.outer),
                                 !.line = "cats.values()"])
    /\ UNCHANGED <<config, reply, queueVars>>

\* line 651, iter(cats.values())
GetStatisticsCatsValues ==
    /\ ReaderAt("get_statistics", "cats.values()")
    /\ ReaderGoesOn([reader[1] EXCEPT
                         !.inner = DictIter(RULES_LIBRARY[reader[1].scheme]),
                         !.line = "for rules"])
    /\ UNCHANGED <<config, reply, queueVars>>

\* line 651, for rules in cats.values(): the next category, or the end of
\* the scheme.
GetStatisticsForRules ==
    /\ ReaderAt("get_statistics", "for rules")
    /\ LET r == reader[1]
           cats == RULES_LIBRARY[r.scheme]
       IN  IF IterRaises(r.inner, cats)
           THEN ReaderReturns(ReaderError("get_statistics"))
           ELSE IF IterStops(r.inner, cats)
           THEN ReaderGoesOn([r EXCEPT !.line = "for cats"])
           ELSE ReaderGoesOn([r EXCEPT !.inner = IterAdvance(r.inner),
                                       !.line = "len(cats)"])
    /\ UNCHANGED <<config, reply, queueVars>>

\* line 651, len(cats): the term of the sum is the number of categories
\* the scheme has now.
GetStatisticsLenCats ==
    /\ ReaderAt("get_statistics", "len(cats)")
    /\ LET r == reader[1]
       IN  ReaderGoesOn([r EXCEPT
               !.total = r.total
                           + Cardinality(Keys(RULES_LIBRARY[r.scheme])),
               !.line = "for rules"])
    /\ UNCHANGED <<config, reply, queueVars>>

\* lines 652-653: len(UPLOADED_RULEBOOKS), USE_AI, and the response.
GetStatisticsL652 ==
    /\ ReaderAt("get_statistics", "l652")
    /\ LET r == reader[1]
       IN  ReaderReturns(ReaderReply("get_statistics",
               [total_processed |-> r.stats.total_processed,
                compliant |-> r.stats.compliant,
                non_compliant |-> r.stats.non_compliant,
                processing |-> r.stats.processing,
                queue_size |-> r.stats.queue_size,
                rules_library_size |-> r.total,
                uploaded_rulebooks |->
                    Cardinality(Keys(UPLOADED_RULEBOOKS)),
                ai_enabled |-> USE_AI]))
    /\ UNCHANGED <<config, reply, queueVars>>

\* confidence in validate_payment, in tenths.
ValidateConfidence(rulebook_source) ==
    IF StartsWithUploadedPdf(rulebook_source) THEN 995
    ELSE IF rulebook_source = "rules-library" THEN 993
    ELSE 990

\* An HTTP response of validate_payment: the PaymentAnalysis, or 500 when
\* the handler raised.  read is history: the rulebook text and filename the
\* evaluation read.
ValidateReply(request, r) ==
    IF r.raised \/ ~PaymentAnalysisValid(request.payment)
    THEN [op |-> "validate_payment", request |-> request,
          status_code |-> 500, result |-> NoResult,
          read |-> RulebookRead(Upper(request.scheme))]
    ELSE [op |-> "validate_payment", request |-> request,
          status_code |-> 200,
          read |-> RulebookRead(Upper(request.scheme)),
          result |-> [set |-> TRUE, status |-> StatusOf(r.violations),
                      violations |-> r.violations,
                      rulebookSource |-> r.rulebook_source,
                      confidence |-> ValidateConfidence(r.rulebook_source)]]

\* POST /api/validate
validate_payment(payment, request_scheme, ai) ==
    LET scheme == Upper(request_scheme)
        request == [payment |-> payment, scheme |-> request_scheme, ai |-> ai]
    IN  /\ reply' = <<ValidateReply(request,
                                    AnalyzeWithPdfRules(payment, scheme, ai))>>
        /\ pc = "idle"
        /\ observed' = <<>>
        /\ UNCHANGED reader
        /\ UNCHANGED <<config, queueVars>>

\* main4.py ai_validate_payment, given the rulebook text it is passed and
\* what the collaborator does: 400 without a rulebook, 500 when the call
\* raises or the response is no JSON, else the violations.
AiValidatePayment(rulebook_text, ai) ==
    IF rulebook_text = ""
    THEN [status_code |-> 400, violations |-> <<>>]
    ELSE IF ai.raises
    THEN [status_code |-> 500, violations |-> <<>>]
    ELSE [status_code |-> 200,
          violations |-> [i \in 1..Len(ai.violations) |->
                             SeverityOf(ai.violations[i])]]

\* main4.py: a call of ai_validate_payment from validate_payment_ai.
ai_validate_payment(rulebook_text, ai) ==
    LET request == [rulebook_text |-> rulebook_text, ai |-> ai]
        r == AiValidatePayment(rulebook_text, ai)
    IN  /\ reply' = <<[op |-> "ai_validate_payment", request |-> request,
                       status_code |-> r.status_code,
                       violations |-> r.violations]>>
        /\ pc = "idle"
        /\ observed' = <<>>
        /\ UNCHANGED reader
        /\ UNCHANGED <<config, queueVars>>

\* The payments sent to validate_payment: amounts at, just above and well
\* above the purpose-code threshold, with and without a purpose code, and
\* amounts absent, null and not numeric.
EvalPayments ==
    { Payment(Num(PurposeThreshold), "absent", "EUR"),
      Payment(Num(PurposeThreshold + 1), "absent", "EUR"),
      Payment(Num(PurposeThreshold + 1), "SUPP", "EUR"),
      Payment(Num(15000), "", "EUR"),
      Payment(AmountAbsent, "absent", "EUR"),
      Payment(AmountNull, "absent", "EUR"),
      Payment(AmountText, "SUPP", "EUR"),
      Payment(Num(100), "SUPP", "null") }

\* What the collaborator does on the call of a synchronous validation: as
\* for the worker, or it returns a violation candidate whose severity is a
\* word of its own.
ValidateOutcomes ==
    AIOutcomes \cup { [raises |-> FALSE, violations |-> <<"critical">>] }

\* The files uploaded: a.pdf with every outcome of the PDF reader, b.pdf
\* with a readable text that is not a.pdf's, and a file that is no PDF.
Uploads ==
    { [filename |-> "a.pdf", pdf |-> pdf] :
          pdf \in { o \in PdfOutcomes : o.text_length <= MinTextLength } }
    \cup { [filename |-> "b.pdf",
            pdf |-> [ok |-> TRUE, text_length |-> MinTextLength + 1]],
           [filename |-> "notes.txt",
            pdf |-> [ok |-> TRUE, text_length |-> MinTextLength]] }

NextRulebook ==
    \/ \E scheme \in Schemes, file \in Uploads :
          upload_rulebook(scheme, file.filename, file.pdf)
    \/ \E ex \in ExtractionOutcomes : UploadL458(ex)
    \/ UploadL460
    \/ \E payment \in EvalPayments, scheme \in Schemes,
          ai \in ValidateOutcomes :
          validate_payment(payment, scheme, ai)
    \/ \E rulebook_text \in {"", "rulebook"}, ai \in ValidateOutcomes :
          ai_validate_payment(rulebook_text, ai)
    \/ \E text_length \in {MinTextLength, ChunkSize + 1},
          exs \in [1..MaxChunks -> ExtractionOutcomes] :
          extract_rules_from_pdf(text_length, exs)
    \/ \E payment \in Main2Payments, rulebook_text \in {"", "rulebook"},
          ai \in ValidateOutcomes :
          analyze_pacs008_payment(payment, rulebook_text, ai)

\* The rulebook upload and the immediate validation.
SpecRulebook == Init /\ [][NextRulebook]_vars

\* ------------------------------------------------------------- main1.py, whole
\* The queue, the worker, the upload and the synchronous validation of
\* main1.py in one service, for the scheme sepa.
NextService ==
    \/ \E payment \in QueuePayments("sepa") : add_to_queue(payment, "sepa")
    \/ \E i \in 1..Len(tasks) : WorkerStart(i)
    \/ WorkerEvaluate
    \/ WorkerL259
    \/ WorkerL260
    \/ \E file \in Uploads : upload_rulebook("sepa", file.filename, file.pdf)
    \/ \E ex \in ExtractionOutcomes : UploadL458(ex)
    \/ UploadL460
    \/ \E ai \in AIOutcomes :
          validate_payment(Payment(Num(15000), "absent", "EUR"), "sepa", ai)

\* main1.py: queued jobs, uploads and validations together.
SpecService == Init /\ [][NextService]_vars

\* The files uploaded while the readers run: a.pdf with a text of the
\* minimum length, with a shorter one and with none.
ReaderUploads ==
    { file \in Uploads : file.filename = "a.pdf" /\ file.pdf.ok }

\* The plain def readers of main1.py, one read a step, with the handlers
\* that write what they read: the upload, and the submission of a job.
NextReaders ==
    \/ add_to_queue(Payment(Num(100), "absent", "EUR"), "sepa")
    \/ \E scheme \in Schemes, file \in ReaderUploads :
          upload_rulebook(scheme, file.filename, file.pdf)
    \/ \E ex \in ExtractionOutcomes : UploadL458(ex)
    \/ UploadL460
    \/ GetStatisticsL650
    \/ GetStatisticsL651
    \/ GetStatisticsForCats
    \/ GetStatisticsCatsValues
    \/ GetStatisticsForRules
    \/ GetStatisticsLenCats
    \/ GetStatisticsL652
    \/ ListRulebooksL641
    \/ ListRulebooksL642

\* main1.py: the upload, the submission and the readers that run on pool
\* threads.
SpecReaders == Init /\ [][NextReaders]_vars

\* ------------------------------------------------------------- main.py
\* src/main.py: the variant with no rule library and with a delete
\* endpoint.  Its UPLOADED_RULEBOOKS entries have no extraction, and for
\* the schemes in use (none contains SWIFT) its analyze_without_ai is
\* main1.py's.

\* main.py analyze_with_pdf_rules: the rule source selected for a scheme.
MainRulebookSource(scheme) ==
    LET scheme_upper == Upper(scheme)
    IN  IF Has(UPLOADED_RULEBOOKS, scheme_upper)
        THEN UploadedPdfTag(UPLOADED_RULEBOOKS[scheme_upper].filename)
        ELSE "default-rulebook"

\* main.py analyze_with_pdf_rules, given what the collaborator does.
MainAnalyzeWithPdfRules(payment, scheme, ai) ==
    IF ~AiEnabled
    THEN LET r == AnalyzeWithoutAi(payment, scheme)
         IN  [raised |-> r.raised, violations |-> r.violations,
              rulebook_source |-> "rule-based"]
    ELSE IF ai.raises
         THEN LET r == AnalyzeWithoutAi(payment, scheme)
              IN  [raised |-> r.raised, violations |-> r.violations,
                   rulebook_source |-> "fallback-rules"]
         ELSE [raised |-> FALSE,
               violations |-> [i \in 1..Len(ai.violations) |->
                                  SeverityOf(ai.violations[i])],
               rulebook_source |-> MainRulebookSource(scheme)]

\* main.py validate_payment: confidence, in tenths.
MainValidateConfidence(rulebook_source) ==
    IF StartsWithUploadedPdf(rulebook_source) THEN 995
    ELSE IF AiEnabled THEN 990
    ELSE 950

\* main.py POST /api/validate
main_validate_payment(payment, request_scheme, ai) ==
    LET scheme == Upper(request_scheme)
        request == [payment |-> payment, scheme |-> request_scheme, ai |-> ai]
        r == MainAnalyzeWithPdfRules(payment, scheme, ai)
    IN  /\ reply' =
             IF r.raised \/ ~PaymentAnalysisValid(payment)
             THEN <<[op |-> "main_validate_payment", request |-> request,
                     status_code |-> 500, result |-> NoResult]>>
             ELSE <<[op |-> "main_validate_payment", request |-> request,
                     status_code |-> 200,
                     result |->
                         [set |-> TRUE, status |-> StatusOf(r.violations),
                          violations |-> r.violations,
                          rulebookSource |-> r.rulebook_source,
                          confidence |->
                              MainValidateConfidence(r.rulebook_source)]]>>
        /\ pc = "idle"
        /\ observed' = <<>>
        /\ UNCHANGED reader
        /\ UNCHANGED <<config, queueVars>>

\* main.py POST /api/upload-rulebook: extract_text_from_pdf turns a reader
\* error into 400; the summary call cannot raise.
main_upload_rulebook(request_scheme, filename, pdf) ==
    LET request == [scheme |-> request_scheme, filename |-> filename,
                    pdf |-> pdf]
        scheme_upper == Upper(request_scheme)
        stored == EndsWithPdf(filename) /\ pdf.ok
                  /\ ~TextTooShort(pdf.text_length)
    IN  /\ reply' = <<[op |-> "main_upload_rulebook", request |-> request,
                       status_code |-> IF stored THEN 200 ELSE 400]>>
        /\ UPLOADED_RULEBOOKS' =
             IF stored
             THEN StoreRulebook(UPLOADED_RULEBOOKS, scheme_upper,
                                RulebookEntry(filename, pdf.text_length,
                                              FALSE))
             ELSE UPLOADED_RULEBOOKS
        /\ pc = "idle"
        /\ observed' = <<>>
        /\ UNCHANGED reader
        /\ UNCHANGED <<USE_AI, RULES_LIBRARY, queueVars>>

\* Mutant of DictPop: every key is removed.
DictPopAll(dict, key) == EmptyDict

\* dict.pop(key), the dict afterwards
DictPop(dict, key) ==
    [k \in DOMAIN dict \ {key} |->
        IF k = Order
        THEN SelectSeq(dict[Order], LAMBDA other : other # key)
        ELSE dict[k]]

\* main.py DELETE /api/rulebooks/{scheme}
delete_rulebook(request_scheme) ==
    LET request == [scheme |-> request_scheme]
        scheme_upper == Upper(request_scheme)
    IN  /\ IF Has(UPLOADED_RULEBOOKS, scheme_upper)
           THEN /\ UPLOADED_RULEBOOKS' = DictPop(UPLOADED_RULEBOOKS,
                                                 scheme_upper)
                /\ reply' =
                     <<[op |-> "delete_rulebook", request |-> request,
                        status_code |-> 200,
                        filename |->
                            UPLOADED_RULEBOOKS[scheme_upper].filename]>>
           ELSE /\ reply' =
                     <<[op |-> "delete_rulebook", request |-> request,
                        status_code |-> 404, filename |-> ""]>>
                /\ UNCHANGED UPLOADED_RULEBOOKS
        /\ pc = "idle"
        /\ observed' = <<>>
        /\ UNCHANGED reader
        /\ UNCHANGED <<USE_AI, RULES_LIBRARY, queueVars>>

NextMain ==
    \/ \E scheme \in Schemes, file \in Uploads :
          main_upload_rulebook(scheme, file.filename, file.pdf)
    \/ \E scheme \in Schemes : delete_rulebook(scheme)
    \/ \E payment \in EvalPayments, scheme \in Schemes,
          ai \in ValidateOutcomes :
          main_validate_payment(payment, scheme, ai)

\* main.py: upload, delete and the immediate validation.
SpecMain == Init /\ [][NextMain]_vars

\* ------------------------------------------------------------- main2.py upload
\* src/main2.py upload_rulebook and the two plain-def readers.  Whatever the
\* scheme of the request, the rulebook is stored under SEPA and its rules
\* are appended to the SEPA library.

\* What the collaborator does on an extraction call of an upload here: its
\* call raises, or it returns one rule candidate without an id.
Main2ExtractionOutcomes ==
    { ex \in ExtractionOutcomes : ex.raises \/ Len(ex.rules) = 1 }

\* The files uploaded: those of Uploads, and a.pdf with a text of two chunks.
Main2Uploads ==
    Uploads \cup { [filename |-> "a.pdf",
                    pdf |-> [ok |-> TRUE, text_length |-> ChunkSize + 1]] }

\* An HTTP response of main2.py upload_rulebook.
Main2UploadReply(request, status_code, rules) ==
    [op |-> "main2_upload_rulebook", request |-> request,
     status_code |-> status_code, rules |-> rules]

\* main2.py POST /api/upload-rulebook, lines 822-848: a file that is no PDF
\* is answered 400; a reader error and the 400 raised for a text under the
\* minimum length both leave through except Exception, as 500; else the
\* rulebook is stored under SEPA and the handler goes on to the extraction.
main2_upload_rulebook(request_scheme, filename, pdf) ==
    LET request == [scheme |-> request_scheme, filename |-> filename,
                    pdf |-> pdf]
        refused(status_code) ==
            /\ reply' = <<Main2UploadReply(request, status_code, <<>>)>>
            /\ UNCHANGED <<UPLOADED_RULEBOOKS, pc, upload>>
    IN  /\ pc = "idle"
        /\ RulesHeld(RULES_LIBRARY, "SEPA") < Main2MaxRules
        /\ IF ~EndsWithPdf(filename) THEN refused(400)
           ELSE IF ~pdf.ok THEN refused(500)
           ELSE IF pdf.text_length < MinTextLength THEN refused(500)
           ELSE /\ UPLOADED_RULEBOOKS' =
                     StoreRulebook(UPLOADED_RULEBOOKS, "SEPA",
                                   RulebookEntry(filename, pdf.text_length,
                                                 FALSE))
                /\ upload' = <<[request |-> request, rules |-> <<>>,
                                added |-> 0]>>
                /\ pc' = "l851"
                /\ reply' = <<>>
        /\ observed' = <<>>
        /\ UNCHANGED reader
        /\ UNCHANGED <<USE_AI, RULES_LIBRARY, MESSAGE_QUEUE, PROCESSING_STATS,
                       tasks, clock, message, status, hist>>

\* line 851: extract_rules_from_pdf(rulebook_text, "SEPA") returns, after
\* the collaborator's answers when the collaborator is enabled.
Main2UploadL851(exs) ==
    /\ pc = "l851"
    /\ upload' = <<[upload[1] EXCEPT
                       !.rules = ExtractRulesFromPdf(
                                     upload[1].request.pdf.text_length,
                                     "SEPA", exs)]>>
    /\ pc' = "l854"
    /\ observed' = <<>>
    /\ UNCHANGED reader
    /\ UNCHANGED <<config, reply, MESSAGE_QUEUE, PROCESSING_STATS, tasks,
                   clock, message, status, hist>>

\* lines 854-855: if "SEPA" not in RULES_LIBRARY: RULES_LIBRARY["SEPA"] = {}
Main2UploadL854 ==
    /\ pc = "l854"
    /\ RULES_LIBRARY' = IF Has(RULES_LIBRARY, "SEPA") THEN RULES_LIBRARY
                        ELSE DictSet(RULES_LIBRARY, "SEPA", EmptyDict)
    /\ pc' = "l857"
    /\ observed' = <<>>
    /\ UNCHANGED reader
    /\ UNCHANGED <<USE_AI, UPLOADED_RULEBOOKS, reply, upload, MESSAGE_QUEUE,
                   PROCESSING_STATS, tasks, clock, message, status, hist>>

\* lines 858-860: RULES_LIBRARY["SEPA"][rule.category].append(rule), the
\* category created when it is new.
Main2Append(library, rule) ==
    LET cats == IF Has(library["SEPA"], rule.category) THEN library["SEPA"]
                ELSE DictSet(library["SEPA"], rule.category, <<>>)
    IN  DictSet(library, "SEPA",
                DictSet(cats, rule.category,
                        Append(cats[rule.category], rule)))

\* The next write of lines 858-860 for a rule: line 859 while the category
\* has no list, and then the append of line 860.
Main2AppendWrite(library, rule) ==
    IF ~Has(library["SEPA"], rule.category)
    THEN DictSet(library, "SEPA",
                 DictSet(library["SEPA"], rule.category, <<>>))
    ELSE Main2Append(library, rule)

\* lines 857-871: for rule in rules, one write of RULES_LIBRARY a step, and
\* after the last rule the response.
Main2UploadL857 ==
    /\ pc = "l857"
    /\ LET u == upload[1]
       IN  IF u.added < Len(u.rules)
           THEN LET rule == u.rules[u.added + 1]
                IN  /\ RULES_LIBRARY' = Main2AppendWrite(RULES_LIBRARY, rule)
                    /\ upload' =
                         <<[u EXCEPT
                               !.added =
                                   IF Has(RULES_LIBRARY["SEPA"], rule.category)
                                   THEN u.added + 1 ELSE u.added]>>
                    /\ UNCHANGED <<pc, reply>>
           ELSE /\ reply' = <<Main2UploadReply(u.request, 200, u.rules)>>
                /\ upload' = <<>>
                /\ pc' = "idle"
                /\ UNCHANGED RULES_LIBRARY
    /\ observed' = <<>>
    /\ UNCHANGED reader
    /\ UNCHANGED <<USE_AI, UPLOADED_RULEBOOKS, MESSAGE_QUEUE, PROCESSING_STATS,
                   tasks, clock, message, status, hist>>

\* main2.py GET /api/rulebooks, a plain def, line 893:
\* list(UPLOADED_RULEBOOKS.keys())
Main2ListRulebooksL893 ==
    /\ reader = <<>>
    /\ reader' = <<[op |-> "main2_list_rulebooks", line |-> "l894",
                    keys |-> KeyOrder(UPLOADED_RULEBOOKS), total |-> 0,
                    items |-> DictIter(EmptyDict), details |-> EmptyDict]>>
    /\ observed' = <<>>
    /\ reply' = <<>>
    /\ UNCHANGED <<config, queueVars>>

\* line 894: len(UPLOADED_RULEBOOKS)
Main2ListRulebooksL894 ==
    /\ ReaderAt("main2_list_rulebooks", "l894")
    /\ ReaderGoesOn([reader[1] EXCEPT
                         !.total = Cardinality(Keys(UPLOADED_RULEBOOKS)),
                         !.line = "l899"])
    /\ UNCHANGED <<config, reply, queueVars>>

\* line 899: iter(UPLOADED_RULEBOOKS.items())
Main2ListRulebooksL899 ==
    /\ ReaderAt("main2_list_rulebooks", "l899")
    /\ ReaderGoesOn([reader[1] EXCEPT
                         !.items = DictIter(UPLOADED_RULEBOOKS),
                         !.line = "for k, v"])
    /\ UNCHANGED <<config, reply, queueVars>>

\* lines 895-899, for k, v in UPLOADED_RULEBOOKS.items(): the next
\* rulebook, whose filename goes into details, or the end and the response.
\* An entry is never changed after it is stored, so v["filename"] is the
\* filename of the entry the iterator gave.
Main2ListRulebooksForKV ==
    /\ ReaderAt("main2_list_rulebooks", "for k, v")
    /\ LET r == reader[1]
           k == IterKey(r.items, UPLOADED_RULEBOOKS)
       IN  IF IterRaises(r.items, UPLOADED_RULEBOOKS)
           THEN ReaderReturns(ReaderError("main2_list_rulebooks"))
           ELSE IF IterStops(r.items, UPLOADED_RULEBOOKS)
           THEN ReaderReturns(ReaderReply("main2_list_rulebooks",
                    [uploaded_rulebooks |-> r.keys, total |-> r.total,
                     details |-> r.details]))
           ELSE ReaderGoesOn([r EXCEPT
                    !.details = DictSet(r.details, k,
                                        UPLOADED_RULEBOOKS[k].filename),
                    !.items = IterAdvance(r.items)])
    /\ UNCHANGED <<config, reply, queueVars>>

\* main2.py GET /api/statistics, a plain def, line 906:
\* {**PROCESSING_STATS, the copy.
Main2GetStatisticsL906 ==
    /\ reader = <<>>
    /\ reader' = <<[op |-> "main2_get_statistics", line |-> "l909",
                    stats |-> PROCESSING_STATS,
                    outer |-> DictIter(EmptyDict), scheme |-> "",
                    inner |-> DictIter(EmptyDict), category |-> "",
                    total |-> 0]>>
    /\ observed' = <<>>
    /\ reply' = <<>>
    /\ UNCHANGED <<config, queueVars>>

\* line 909, sum(... for cats in RULES_LIBRARY.values() ...): the generator
\* is built over iter(RULES_LIBRARY.values()).
Main2GetStatisticsL909 ==
    /\ ReaderAt("main2_get_statistics", "l909")
    /\ ReaderGoesOn([reader[1] EXCEPT !.outer = DictIter(RULES_LIBRARY),
                                      !.line = "for cats"])
    /\ UNCHANGED <<config, reply, queueVars>>

\* line 909, for cats in RULES_LIBRARY.values(): the next scheme's dict, or
\* the end of the sum.
Main2GetStatisticsForCats ==
    /\ ReaderAt("main2_get_statistics", "for cats")
    /\ LET r == reader[1]
       IN  IF IterRaises(r.outer, RULES_LIBRARY)
           THEN ReaderReturns(ReaderError("main2_get_statistics"))
           ELSE IF IterStops(r.outer, RULES_LIBRARY)
           THEN ReaderGoesOn([r EXCEPT !.line = "l910"])
           ELSE ReaderGoesOn([r EXCEPT
                                 !.scheme = IterKey(r.outer, RULES_LIBRARY),
                                 !.outer = IterAdvance(r.outer),
                                 !.line = "cats.values()"])
    /\ UNCHANGED <<config, reply, queueVars>>

\* line 909, iter(cats.values())
Main2GetStatisticsCatsValues ==
    /\ ReaderAt("main2_get_statistics", "cats.values()")
    /\ ReaderGoesOn([reader[1] EXCEPT
                         !.inner = DictIter(RULES_LIBRARY[reader[1].scheme]),
                         !.line = "for r"])
    /\ UNCHANGED <<config, reply, queueVars>>

\* line 909, for r in cats.values(): the next category's list, or the end
\* of the scheme.
Main2GetStatisticsForR ==
    /\ ReaderAt("main2_get_statistics", "for r")
    /\ LET r == reader[1]
           cats == RULES_LIBRARY[r.scheme]
       IN  IF IterRaises(r.inner, cats)
           THEN ReaderReturns(ReaderError("main2_get_statistics"))
           ELSE IF IterStops(r.inner, cats)
           THEN ReaderGoesOn([r EXCEPT !.line = "for cats"])
           ELSE ReaderGoesOn([r EXCEPT !.category = IterKey(r.inner, cats),
                                       !.inner = IterAdvance(r.inner),
                                       !.line = "len(r)"])
    /\ UNCHANGED <<config, reply, queueVars>>

\* line 909, len(r): the term of the sum is the number of rules the list
\* has now.
Main2GetStatisticsLenR ==
    /\ ReaderAt("main2_get_statistics", "len(r)")
    /\ LET r == reader[1]
       IN  ReaderGoesOn([r EXCEPT
               !.total = r.total
                           + Len(RULES_LIBRARY[r.scheme][r.category]),
               !.line = "for r"])
    /\ UNCHANGED <<config, reply, queueVars>>

\* line 910: USE_AI, and the response.
Main2GetStatisticsL910 ==
    /\ ReaderAt("main2_get_statistics", "l910")
    /\ LET r == reader[1]
       IN  ReaderReturns(ReaderReply("main2_get_statistics",
               [total_processed |-> r.stats.total_processed,
                compliant |-> r.stats.compliant,
                non_compliant |-> r.stats.non_compliant,
                processing |-> r.stats.processing,
                queue_size |-> r.stats.queue_size,
                message_type |-> "PACS.008",
                scheme |-> "SEPA",
                rules_library_size |-> r.total,
                ai_enabled |-> USE_AI]))
    /\ UNCHANGED <<config, reply, queueVars>>

NextMain2 ==
    \/ \E scheme \in Schemes, file \in Main2Uploads :
          main2_upload_rulebook(scheme, file.filename, file.pdf)
    \/ \E exs \in [1..MaxChunks -> Main2ExtractionOutcomes] :
          Main2UploadL851(exs)
    \/ Main2UploadL854
    \/ Main2UploadL857
    \/ Main2GetStatisticsL906
    \/ Main2GetStatisticsL909
    \/ Main2GetStatisticsForCats
    \/ Main2GetStatisticsCatsValues
    \/ Main2GetStatisticsForR
    \/ Main2GetStatisticsLenR
    \/ Main2GetStatisticsL910
    \/ Main2ListRulebooksL893
    \/ Main2ListRulebooksL894
    \/ Main2ListRulebooksL899
    \/ Main2ListRulebooksForKV

\* main2.py: the rulebook upload and its readers.
SpecMain2 == Init /\ [][NextMain2]_vars

\* ------------------------------------------------------------- XML parser
\* main2.py and main4.py parse_pacs008_xml (the same code in both).  An
\* element is "absent" (not in the tree), "null" (in the tree with no text:
\* its .text is None) or its text; a dict key is "absent" when it was never
\* set and "null" when it holds None.

\* A GrpHdr or CdtTrfTxInf section that is not in the message.
NoSection == [present |-> FALSE, id |-> "absent", EndToEndId |-> "absent",
              Ccy |-> "absent"]

\* The GrpHdr sections: none, or one whose MsgId is missing, empty or M1,
\* and whose TtlIntrBkSttlmAmt is missing ("absent"), has no Ccy attribute
\* ("null") or has Ccy GBP.
GroupHeaders ==
    {NoSection} \cup
    { [present |-> TRUE, id |-> e, EndToEndId |-> "absent", Ccy |-> c] :
          e \in {"absent", "null", "M1"}, c \in {"absent", "null", "GBP"} }

\* The CdtTrfTxInf sections: none, or one whose TxId is missing, empty or
\* T1, with or without an EndToEndId, and whose IntrBkSttlmAmt is missing
\* ("absent"), has no Ccy attribute ("null") or has Ccy USD.
Transactions ==
    {NoSection} \cup
    { [present |-> TRUE, id |-> e, EndToEndId |-> f, Ccy |-> c] :
          e \in {"absent", "null", "T1"}, f \in {"absent", "E1"},
          c \in {"absent", "null", "USD"} }

\* The messages given to the parser: text that is no XML, and the documents
\* made of a header and a transaction section.
XmlMessages ==
    { [wellformed |-> FALSE, GrpHdr |-> NoSection, CdtTrfTxInf |-> NoSection] }
    \cup { [wellformed |-> TRUE, GrpHdr |-> g, CdtTrfTxInf |-> t] :
               g \in GroupHeaders, t \in Transactions }

\* get_text: found.text if found is not None else None
GetText(element) == IF element = "absent" THEN "null" ELSE element

\* dict.get(key, default): the default only when the key was never set.
DictGet(value, default) == IF value = "absent" THEN default ELSE value

\* payment_data.get("transaction_id", payment_data.get("message_id",
\* "UNKNOWN"))
PaymentId(transaction_id, message_id) ==
    DictGet(transaction_id, DictGet(message_id, "UNKNOWN"))

\* amt = section.find(...); if amt is not None:
\*     payment_data["currency"] = amt.get("Ccy", "EUR")
\* The value of the key after the lines, from its value before them.
SetCurrency(currency, section) ==
    IF section.present /\ section.Ccy # "absent"
    THEN (IF section.Ccy = "null" THEN "EUR" ELSE section.Ccy)
    ELSE currency

\* parse_pacs008_xml: HTTP 400 for text that is no XML, else payment_data by
\* the keys the claims read.  The currency is set from the header's total
\* amount and then again from the transaction's amount.
ParsePacs008Xml(xml) ==
    LET grp_hdr == xml.GrpHdr
        cdt_trf == xml.CdtTrfTxInf
        message_id == IF grp_hdr.present THEN GetText(grp_hdr.id)
                      ELSE "absent"
        transaction_id == IF cdt_trf.present THEN GetText(cdt_trf.id)
                          ELSE "absent"
        end_to_end_id == IF cdt_trf.present THEN GetText(cdt_trf.EndToEndId)
                         ELSE "absent"
        currency == SetCurrency(SetCurrency("absent", grp_hdr), cdt_trf)
    IN  IF ~xml.wellformed
        THEN [status_code |-> 400, message_id |-> "absent",
              transaction_id |-> "absent", end_to_end_id |-> "absent",
              currency |-> "absent", id |-> "absent"]
        ELSE [status_code |-> 200, message_id |-> message_id,
              transaction_id |-> transaction_id,
              end_to_end_id |-> end_to_end_id, currency |-> currency,
              id |-> PaymentId(transaction_id, message_id)]

\* A call of parse_pacs008_xml.
parse_pacs008_xml(xml) ==
    /\ reply' = <<[op |-> "parse_pacs008_xml", request |-> xml,
                   payment_data |-> ParsePacs008Xml(xml)]>>
    /\ pc = "idle"
    /\ observed' = <<>>
    /\ UNCHANGED reader
    /\ UNCHANGED <<config, queueVars>>

NextParse == \E xml \in XmlMessages : parse_pacs008_xml(xml)

\* The parser applied to messages.
SpecParse == Init /\ [][NextParse]_vars

\* ------------------------------------------------------------- claims
Min(a, b) == IF a < b THEN a ELSE b

Indices(queue) == 1..Len(queue)

\* The tallies of PROCESSING_STATS.
Tallies(stats) ==
    <<stats.total_processed, stats.compliant, stats.non_compliant>>

\* C1: once a job is completed or failed its status never changes again and
\* no worker run takes it a second time.
C1_TerminalIsFinal ==
    [][\A i \in Indices(MESSAGE_QUEUE), j \in Indices(MESSAGE_QUEUE') :
          (/\ MESSAGE_QUEUE[i].uid = MESSAGE_QUEUE'[j].uid
           /\ MESSAGE_QUEUE[i].status \in Terminal)
          => /\ MESSAGE_QUEUE'[j].status = MESSAGE_QUEUE[i].status
             /\ MESSAGE_QUEUE'[j].runs = MESSAGE_QUEUE[i].runs]_vars

\* C2: a job that has left pending never shows pending again, a job enters
\* the queue as pending, and a job no worker run has taken is pending.
C2_NeverBackToPending ==
    [][/\ \A i \in Indices(MESSAGE_QUEUE), j \in Indices(MESSAGE_QUEUE') :
             (/\ MESSAGE_QUEUE[i].uid = MESSAGE_QUEUE'[j].uid
              /\ MESSAGE_QUEUE[i].status # "pending")
             => MESSAGE_QUEUE'[j].status # "pending"
       /\ \A j \in Indices(MESSAGE_QUEUE') :
             (\/ MESSAGE_QUEUE'[j].uid > submitted
              \/ MESSAGE_QUEUE'[j].runs = 0)
             => MESSAGE_QUEUE'[j].status = "pending"]_vars

\* C2 witness: a job taken by two worker runs, terminal after the second.
C2_Witness ==
    \E i \in Indices(MESSAGE_QUEUE) :
        MESSAGE_QUEUE[i].runs = 2 /\ MESSAGE_QUEUE[i].status \in Terminal

\* C3: no two jobs held in the queue have the same id.
C3_UniqueIds ==
    \A i, j \in Indices(MESSAGE_QUEUE) :
        i # j => MESSAGE_QUEUE[i].id # MESSAGE_QUEUE[j].id

\* C4: once every scheduled background task has run, no job in the queue is
\* left pending or processing.
C4_AllReachTerminal ==
    (tasks = <<>> /\ pc = "idle")
    => \A i \in Indices(MESSAGE_QUEUE) : MESSAGE_QUEUE[i].status \in Terminal

\* C5: after every worker run, compliant + non_compliant = total_processed.
C5_StatsBalanced ==
    pc = "idle"
    => PROCESSING_STATS.compliant + PROCESSING_STATS.non_compliant
           = PROCESSING_STATS.total_processed

\* C5 witness: runs have ended compliant, non-compliant and failed.
C5_Witness ==
    /\ pc = "idle"
    /\ PROCESSING_STATS.compliant >= 1
    /\ PROCESSING_STATS.non_compliant >= 1
    /\ failedRuns >= 1

\* C6: a statistics() response never shows compliant + non_compliant
\* different from total_processed.
C6_ReaderSeesBalanced ==
    observed # <<>>
    => observed[1].compliant + observed[1].non_compliant
           = observed[1].total_processed

\* C7: the queue holds min(submitted, capacity) jobs, and they are the most
\* recently submitted ones in submission order (the oldest were removed).
C7_BoundedOldestEvicted ==
    /\ Len(MESSAGE_QUEUE) = Min(submitted, QueueMaxLen)
    /\ \A i \in Indices(MESSAGE_QUEUE) :
          MESSAGE_QUEUE[i].uid = submitted - Len(MESSAGE_QUEUE) + i

\* C7 witness: more jobs were submitted than the queue holds.
C7_Witness ==
    submitted > QueueMaxLen /\ Len(MESSAGE_QUEUE) = QueueMaxLen

\* C8: a submission that arrives at capacity leaves the tallies and the
\* in-flight counter unchanged, and no step decreases a tally.
C8_EvictionKeepsTallies ==
    [][/\ (Len(MESSAGE_QUEUE) = QueueMaxLen /\ submitted' > submitted)
          => /\ Tallies(PROCESSING_STATS') = Tallies(PROCESSING_STATS)
             /\ PROCESSING_STATS'.processing = PROCESSING_STATS.processing
       /\ PROCESSING_STATS'.total_processed >= PROCESSING_STATS.total_processed
       /\ PROCESSING_STATS'.compliant >= PROCESSING_STATS.compliant
       /\ PROCESSING_STATS'.non_compliant >= PROCESSING_STATS.non_compliant]_vars

\* C8 witness: the first job completed and was evicted afterwards.
C8_Witness ==
    /\ 1 \in everTerminal
    /\ PROCESSING_STATS.total_processed >= 1
    /\ Len(MESSAGE_QUEUE) = QueueMaxLen
    /\ MESSAGE_QUEUE[1].uid > 1

\* C9 as claimed: total_processed is the number of jobs that ever reached
\* completed or failed.
C9_TotalCountsTerminalJobs ==
    pc = "idle" => PROCESSING_STATS.total_processed = Cardinality(everTerminal)

\* C9 as amended: after every worker run, total_processed is the number of
\* worker runs that ended completed, evicted jobs included; a failed run is
\* not counted.
C9_TotalCountsCompletedRuns ==
    pc = "idle" => PROCESSING_STATS.total_processed = completedRuns

\* C9 witness: runs ended completed and failed, and a job that reached a
\* terminal state has been evicted.
C9_Witness ==
    /\ pc = "idle"
    /\ completedRuns >= 1
    /\ failedRuns >= 1
    /\ \E u \in everTerminal :
          \A i \in Indices(MESSAGE_QUEUE) : MESSAGE_QUEUE[i].uid # u

\* C10: when the evaluation of a job raises, the run ends with the job
\* failed and an error attached, the in-flight counter one lower and the
\* tallies unchanged; a job ends failed only when its evaluation raised.
C10_FailureHandled ==
    [][(pc = "l232" /\ pc' # "l232")
       => LET msg == MESSAGE_QUEUE[message]
              after == MESSAGE_QUEUE'[message]
              failed ==
                  /\ after.status = "failed"
                  /\ after.error
                  /\ pc' = "idle"
                  /\ PROCESSING_STATS'.processing
                         = PROCESSING_STATS.processing - 1
                  /\ Tallies(PROCESSING_STATS') = Tallies(PROCESSING_STATS)
          IN  /\ (\A ai \in AIOutcomes : EvalRaises(msg, ai)) => failed
              /\ after.status = "failed"
                 => failed /\ \E ai \in AIOutcomes : EvalRaises(msg, ai)
              /\ (\A ai \in AIOutcomes : ~EvalRaises(msg, ai))
                 => after.status = "completed"]_vars

\* C10 witness: with the collaborator enabled, a job failed inside the
\* deterministic fallback (its currency is valid), the run over.
C10_Witness ==
    /\ pc = "idle"
    /\ AiEnabled
    /\ \E i \in Indices(MESSAGE_QUEUE) :
          /\ MESSAGE_QUEUE[i].status = "failed"
          /\ MESSAGE_QUEUE[i].error
          /\ PaymentAnalysisValid(MESSAGE_QUEUE[i].payment_data)

\* C11: a batch submission leaves all its records in the queue (the newest
\* QueueMaxLen of them when the batch is larger), in order, pending, taken by
\* no worker run, without result and carrying the one batch id, and no
\* worker run is in progress when it returns; a worker run that ends with
\* its job failed leaves every other job in the queue and the tallies as
\* they were.
C11_BatchEnqueuedSiblingsIsolated ==
    [][/\ LET n == submitted' - submitted
              kept == Min(n, QueueMaxLen)
              len == Len(MESSAGE_QUEUE')
          IN  (n > 0 /\ MESSAGE_QUEUE'[len].id.kind = "BATCH")
              => /\ pc' = "idle"
                 /\ len >= kept
                 /\ \A k \in 1..kept :
                       LET m == MESSAGE_QUEUE'[len - kept + k]
                       IN  /\ m.uid = submitted' - kept + k
                           /\ m.status = "pending"
                           /\ m.runs = 0
                           /\ m.result = NoResult
                           /\ m.batch_id = clock
                           /\ m.id.kind = "BATCH"
       /\ (pc = "l232" /\ MESSAGE_QUEUE'[message].status = "failed")
          => /\ \A i \in Indices(MESSAGE_QUEUE) :
                   i # message => MESSAGE_QUEUE'[i] = MESSAGE_QUEUE[i]
             /\ Len(MESSAGE_QUEUE') = Len(MESSAGE_QUEUE)
             /\ Tallies(PROCESSING_STATS') = Tallies(PROCESSING_STATS)]_vars

\* C11 witness: two jobs of one batch are in the queue, one failed and the
\* other completed with its result.
C11_Witness ==
    \E i, j \in Indices(MESSAGE_QUEUE) :
        /\ i # j
        /\ MESSAGE_QUEUE[i].batch_id >= 0
        /\ MESSAGE_QUEUE[i].batch_id = MESSAGE_QUEUE[j].batch_id
        /\ MESSAGE_QUEUE[i].id # MESSAGE_QUEUE[j].id
        /\ MESSAGE_QUEUE[i].status = "failed"
        /\ MESSAGE_QUEUE[j].status = "completed"
        /\ MESSAGE_QUEUE[j].result.set

\* What analyze_with_pdf_rules returns after a collaborator failure: the
\* findings of the deterministic checks, tagged fallback-rules.
FallbackResult(msg) ==
    MakeResult([violations |->
                    AnalyzeWithoutAi(msg.payment_data, msg.scheme).violations,
                rulebook_source |-> "fallback-rules"])

\* The fallback of a message raises, or PaymentAnalysis refuses its record.
FallbackRaises(msg) ==
    \/ AnalyzeWithoutAi(msg.payment_data, msg.scheme).raised
    \/ ~PaymentAnalysisValid(msg.payment_data)

\* The run in progress is at the collaborator call or inside it.
Evaluating == pc \in {"l232", "l326"}

\* The message of the run in progress has reached completed or failed.
Evaluated ==
    /\ ~Evaluating
    /\ message \in Indices(MESSAGE_QUEUE)
    /\ MESSAGE_QUEUE[message].status \in Terminal

\* A run in progress has a next step; the job in processing is the message
\* of the run that is evaluating it; and a job whose only run had its call
\* ended by the timeout is as after a collaborator failure: completed with
\* the fallback's result, failed where the fallback itself raises.
TimeoutHandledAsFailure ==
    /\ pc # "idle" => ENABLED WorkerStep
    /\ \A i \in Indices(MESSAGE_QUEUE) :
          MESSAGE_QUEUE[i].status = "processing"
          => (Evaluating /\ message = i)
    /\ \A i \in Indices(MESSAGE_QUEUE) :
          LET msg == MESSAGE_QUEUE[i]
          IN  (msg.uid \in timedOut /\ msg.runs = 1)
              => /\ msg.status \in Terminal
                 /\ IF FallbackRaises(msg)
                    THEN msg.status = "failed" /\ msg.error
                    ELSE /\ msg.status = "completed"
                         /\ msg.result = FallbackResult(msg)

\* C12: when the collaborator does not respond to a call, the job in
\* processing still eventually reaches completed or failed: the call is
\* ended by the client's timeout, and the run finishes as after a
\* collaborator failure, with the deterministic fallback.
C12_ProcessingRunProceeds ==
    []TimeoutHandledAsFailure /\ (Evaluating ~> Evaluated)

\* C12 witness: a job whose only run waited in a call the collaborator did
\* not respond to is completed with the fallback's findings, tagged
\* fallback-rules, and no run is in progress.
C12_Witness ==
    /\ pc = "idle"
    /\ \E i \in Indices(MESSAGE_QUEUE) :
          /\ MESSAGE_QUEUE[i].uid \in timedOut
          /\ MESSAGE_QUEUE[i].runs = 1
          /\ MESSAGE_QUEUE[i].status = "completed"
          /\ MESSAGE_QUEUE[i].result.rulebookSource = "fallback-rules"
          /\ Len(MESSAGE_QUEUE[i].result.violations) = 1

\* A response of validate_payment is being returned.
Validated == reply # <<>> /\ reply[1].op = "validate_payment"

\* A call of main2.py's analyze_pacs008_payment has ended.
Analyzed == reply # <<>> /\ reply[1].op = "analyze_pacs008_payment"

\* C13: an evaluation whose collaborator answers selects its rule source by
\* priority and tags the result with it: the uploaded rulebook of the scheme
\* when there is one, else the rules library when it has the scheme, else
\* the default rulebook (tag default-rulebook); a lower source is used only
\* when every higher one is absent.  The first conjunct is main1.py's
\* evaluation, the second main2.py's, which is given the uploaded text.
C13_SourceByPriority ==
    /\ (Validated /\ reply[1].status_code = 200 /\ AiEnabled
                  /\ ~reply[1].request.ai.raises)
       => LET scheme_upper == Upper(reply[1].request.scheme)
              tag == reply[1].result.rulebookSource
              uploaded == Has(UPLOADED_RULEBOOKS, scheme_upper)
              library == Has(RULES_LIBRARY, scheme_upper)
          IN  /\ uploaded
                 => tag = UploadedPdfTag(UPLOADED_RULEBOOKS[scheme_upper].filename)
              /\ (~uploaded /\ library) => tag = "rules-library"
              /\ (~uploaded /\ ~library) => tag = "default-rulebook"
              /\ tag = "rules-library" => (~uploaded /\ library)
              /\ tag = "default-rulebook" => (~uploaded /\ ~library)
    /\ (Analyzed /\ AiEnabled /\ ~reply[1].request.ai.raises)
       => LET tag == reply[1].rulebook_source
              uploaded == reply[1].request.rulebook_text # ""
              library == Has(RULES_LIBRARY, "SEPA")
          IN  /\ ~reply[1].raised
              /\ uploaded => tag = "uploaded-rulebook"
              /\ (~uploaded /\ library) => tag = "rules-library"
              /\ (~uploaded /\ ~library) => tag = "default-rulebook"
              /\ tag = "rules-library" => (~uploaded /\ library)
              /\ tag = "default-rulebook" => (~uploaded /\ ~library)

\* C14: a collaborator failure never reaches the caller of an evaluation as
\* an error: with the collaborator disabled the result is tagged rule-based,
\* when its call raises or its response cannot be parsed the result is
\* tagged fallback-rules, and both carry the deterministic checks' findings.
C14_CollaboratorFailureRecovered ==
    /\ (Validated /\ PaymentAnalysisValid(reply[1].request.payment)
                  /\ (~AiEnabled \/ reply[1].request.ai.raises))
       => /\ reply[1].status_code = 200
          /\ reply[1].result.rulebookSource
                = (IF AiEnabled THEN "fallback-rules" ELSE "rule-based")
          /\ reply[1].result.violations
                = AnalyzeWithoutAi(reply[1].request.payment,
                                   reply[1].request.scheme).violations
    /\ (/\ reply # <<>>
        /\ reply[1].op = "ai_validate_payment"
        /\ reply[1].request.rulebook_text # ""
        /\ reply[1].request.ai.raises)
       => reply[1].status_code = 200

\* The response being returned is of a validate_payment call in which the
\* deterministic fallback ran: the collaborator disabled, or its call failed.
FallbackRan ==
    Validated /\ (~AiEnabled \/ reply[1].request.ai.raises)

\* C15: the deterministic fallback raises for no record, whatever its
\* amount: a validation it serves ends with a result.
C15_FallbackNeverRaises ==
    FallbackRan
    => /\ ~AnalyzeWithoutAi(reply[1].request.payment,
                            reply[1].request.scheme).raised
       /\ PaymentAnalysisValid(reply[1].request.payment)
          => reply[1].status_code = 200

\* C16: for a SEPA record with a numeric amount (and a result that can be
\* built) the fallback reports nothing up to the threshold, exactly one
\* violation of severity high above it when no purpose code is present, and
\* nothing above it when one is.
C16_PurposeCodeThreshold ==
    (/\ FallbackRan
     /\ ContainsSEPA(Upper(reply[1].request.scheme))
     /\ reply[1].request.payment.amount.kind = "num"
     /\ PaymentAnalysisValid(reply[1].request.payment))
    => LET payment == reply[1].request.payment
           amount == payment.amount.val
           violations == reply[1].result.violations
       IN  /\ reply[1].status_code = 200
           /\ amount <= PurposeThreshold => violations = <<>>
           /\ (amount > PurposeThreshold
               /\ payment.purpose_code \in {"absent", "null", ""})
              => violations = <<"high">>
           /\ (amount > PurposeThreshold
               /\ payment.purpose_code \notin {"absent", "null", ""})
              => violations = <<>>

\* C16 witness: the fallback served a SEPA record one unit above the
\* threshold without purpose code and reported the one high violation.
C16_Witness ==
    /\ FallbackRan
    /\ ContainsSEPA(Upper(reply[1].request.scheme))
    /\ reply[1].request.payment.amount = Num(PurposeThreshold + 1)
    /\ reply[1].request.payment.purpose_code = "absent"
    /\ reply[1].status_code = 200
    /\ reply[1].result.violations = <<"high">>
    /\ reply[1].result.status = "non-compliant"

\* A response of upload_rulebook (main1.py) is being returned for an upload
\* that was accepted, and one of extract_rules_from_pdf (main2.py).
Ingested ==
    reply # <<>> /\ reply[1].op = "upload_rulebook"
                 /\ reply[1].status_code = 200
Extracted == reply # <<>> /\ reply[1].op = "extract_rules_from_pdf"

\* rules is a default rule set: not empty, every rule of default provenance.
IsDefaultSet(rules) ==
    /\ Len(rules) > 0
    /\ \A i \in 1..Len(rules) : rules[i].source = "default-rules"

\* C17: with the collaborator disabled, an ingestion adds the default rule
\* set of the scheme to the library, and a result for a scheme with an
\* ingested rulebook is tagged default-rulebook.
C17_DisabledIngestionAddsDefaults ==
    ~AiEnabled
    => /\ Ingested => IsDefaultSet(reply[1].rules)
       /\ Extracted => reply[1].rules = CreateDefaultSepaRules("SEPA")
       /\ (/\ Validated
           /\ reply[1].status_code = 200
           /\ Has(UPLOADED_RULEBOOKS, Upper(reply[1].request.scheme)))
          => reply[1].result.rulebookSource = "default-rulebook"

\* C18: when the collaborator raises or answers unusably during extraction,
\* the ingestion still succeeds and the rules it adds are the default rule
\* set, all of default provenance, none tagged as extracted.
C18_ExtractionFailureAddsDefaults ==
    AiEnabled
    => /\ (/\ reply # <<>>
           /\ reply[1].op = "upload_rulebook"
           /\ EndsWithPdf(reply[1].request.filename)
           /\ reply[1].request.pdf.ok
           /\ reply[1].request.pdf.text_length >= MinTextLength
           /\ reply[1].request.ex.raises)
          => /\ reply[1].status_code = 200
             /\ IsDefaultSet(reply[1].rules)
       /\ (/\ Extracted
           /\ \E c \in 1..NumChunks(reply[1].request.text_length) :
                 reply[1].request.exs[c].raises)
          => reply[1].rules = CreateDefaultSepaRules("SEPA")

\* The response being returned is a result for a scheme whose stored
\* rulebook was uploaded with the collaborator failing on the extraction.
ValidatedAfterFailedExtraction ==
    /\ Validated
    /\ reply[1].status_code = 200
    /\ Has(UPLOADED_RULEBOOKS, Upper(reply[1].request.scheme))
    /\ UPLOADED_RULEBOOKS[Upper(reply[1].request.scheme)].extraction_failed

\* C19 as claimed: after an upload whose extraction failed, a result for the
\* scheme is tagged default-rulebook or fallback-rules.
C19_FailedExtractionTagsDefault ==
    ValidatedAfterFailedExtraction
    => reply[1].result.rulebookSource \in {"default-rulebook", "fallback-rules"}

\* C19 as amended: after an upload whose extraction failed, a result for the
\* scheme is tagged with the uploaded rulebook (uploaded-pdf:<filename> of
\* that upload) when the collaborator produced it and fallback-rules when
\* the evaluation call failed; it is never tagged rules-library or
\* default-rulebook.
C19_FailedExtractionTagsUpload ==
    ValidatedAfterFailedExtraction
    => LET entry == UPLOADED_RULEBOOKS[Upper(reply[1].request.scheme)]
           tag == reply[1].result.rulebookSource
       IN  /\ reply[1].request.ai.raises => tag = "fallback-rules"
           /\ ~reply[1].request.ai.raises
              => tag = UploadedPdfTag(entry.filename)
           /\ tag \notin {"rules-library", "default-rulebook"}

\* C19 witness: the extraction of the stored upload failed, the library
\* holds no rule of the scheme, and the result is tagged with the upload.
C19_Witness ==
    /\ ValidatedAfterFailedExtraction
    /\ ~Has(RULES_LIBRARY, Upper(reply[1].request.scheme))
    /\ StartsWithUploadedPdf(reply[1].result.rulebookSource)

\* C20: an upload whose extracted text is shorter than the minimum is
\* answered with an error and leaves every stored rulebook and the rules
\* library as they were.
C20_ShortTextRejected ==
    [][(/\ reply' # <<>>
        /\ reply'[1].op = "upload_rulebook"
        /\ EndsWithPdf(reply'[1].request.filename)
        /\ reply'[1].request.pdf.ok
        /\ reply'[1].request.pdf.text_length < MinTextLength)
       => /\ reply'[1].status_code = 400
          /\ UPLOADED_RULEBOOKS' = UPLOADED_RULEBOOKS
          /\ RULES_LIBRARY' = RULES_LIBRARY]_vars

\* C20 witness: an upload with a text one character short was refused while
\* the scheme keeps the rulebook of an earlier upload under another name
\* and the library keeps its rules.
C20_Witness ==
    /\ reply # <<>>
    /\ reply[1].op = "upload_rulebook"
    /\ reply[1].status_code = 400
    /\ reply[1].request.pdf.ok
    /\ reply[1].request.pdf.text_length = MinTextLength - 1
    /\ EndsWithPdf(reply[1].request.filename)
    /\ Has(UPLOADED_RULEBOOKS, Upper(reply[1].request.scheme))
    /\ UPLOADED_RULEBOOKS[Upper(reply[1].request.scheme)].filename
          # reply[1].request.filename
    /\ Has(RULES_LIBRARY, Upper(reply[1].request.scheme))

\* C21: a successful upload leaves, under its scheme, one rulebook whose text
\* and filename are both the uploaded file's and leaves the other schemes'
\* rulebooks as they were; a refused upload changes no stored rulebook; and
\* an evaluation that uses an uploaded rulebook has read the text and the
\* filename of the one rulebook stored for its scheme.
C21_RulebookReplacedAtomically ==
    [][reply' # <<>> =>
        LET r == reply'[1]
            s == Upper(r.request.scheme)
        IN  /\ (r.op = "upload_rulebook" /\ r.status_code = 200) =>
                  /\ Keys(UPLOADED_RULEBOOKS') =
                         Keys(UPLOADED_RULEBOOKS) \cup {s}
                  /\ UPLOADED_RULEBOOKS'[s].filename = r.request.filename
                  /\ UPLOADED_RULEBOOKS'[s].text_length =
                         r.request.pdf.text_length
                  /\ \A o \in Keys(UPLOADED_RULEBOOKS) \ {s} :
                         UPLOADED_RULEBOOKS'[o] = UPLOADED_RULEBOOKS[o]
            /\ (r.op = "upload_rulebook" /\ r.status_code # 200) =>
                  UPLOADED_RULEBOOKS' = UPLOADED_RULEBOOKS
            /\ (/\ r.op = "validate_payment"
                /\ r.status_code = 200
                /\ StartsWithUploadedPdf(r.result.rulebookSource)) =>
                  /\ Has(UPLOADED_RULEBOOKS, s)
                  /\ r.read.filename = UPLOADED_RULEBOOKS[s].filename
                  /\ r.read.text_length = UPLOADED_RULEBOOKS[s].text_length
                  /\ r.result.rulebookSource = UploadedPdfTag(r.read.filename)
    ]_vars

\* Two uploads for SEPA have succeeded (each added the rule SEPA_001), the
\* second with another file and another text than a.pdf's, and an
\* evaluation has used that rulebook.
C21_Witness ==
    /\ reply # <<>>
    /\ reply[1].op = "validate_payment"
    /\ reply[1].status_code = 200
    /\ reply[1].request.scheme = "sepa"
    /\ reply[1].read = [filename |-> "b.pdf",
                        text_length |-> MinTextLength + 1]
    /\ Has(RULES_LIBRARY, "SEPA")
    /\ Has(RULES_LIBRARY["SEPA"], "General")
    /\ Len(RULES_LIBRARY["SEPA"]["General"]) = 2
    /\ \A i \in 1..2 : RULES_LIBRARY["SEPA"]["General"][i].id = "SEPA_001"

\* The provenance tier of a result's tag: uploaded document 4, rule library
\* 3, default rulebook 2, deterministic fallback (rule-based, fallback-rules)
\* 1.
Tier(rulebook_source) ==
    IF StartsWithUploadedPdf(rulebook_source) THEN 4
    ELSE IF rulebook_source = "rules-library" THEN 3
    ELSE IF rulebook_source = "default-rulebook" THEN 2
    ELSE 1

\* A synchronous validation has answered with a result.
ValidatedIn(rep) ==
    /\ rep # <<>>
    /\ rep[1].op = "validate_payment"
    /\ rep[1].status_code = 200

\* The results in the state: those attached to queued jobs and the one of
\* the synchronous response being returned.
Results ==
    { MESSAGE_QUEUE[i].result : i \in Indices(MESSAGE_QUEUE) }
    \cup (IF ValidatedIn(reply) THEN {reply[1].result} ELSE {})

\* C22: of two results, of queued jobs or of a synchronous validation, the
\* one of the higher provenance tier has the strictly higher confidence.
C22_ConfidenceOrderedByTier ==
    \A a, b \in Results :
        (a.set /\ b.set /\ Tier(a.rulebookSource) > Tier(b.rulebookSource))
        => a.confidence > b.confidence

\* The violations (their severities) of the result a response carries.
ViolationsReturned ==
    IF reply = <<>> THEN <<>>
    ELSE IF reply[1].op = "validate_payment" /\ reply[1].status_code = 200
    THEN reply[1].result.violations
    ELSE IF reply[1].op = "ai_validate_payment" /\ reply[1].status_code = 200
    THEN reply[1].violations
    ELSE <<>>

\* C23: every violation of every result has severity high, medium or low,
\* whatever the collaborator returned.
C23_SeverityIsALevel ==
    \A i \in 1..Len(ViolationsReturned) :
        ViolationsReturned[i] \in {"high", "medium", "low"}

\* Every result's status is compliant when it has no violation and
\* non-compliant when it has one.
StatusDerived ==
    \A r \in Results :
        r.set => /\ r.status \in {"compliant", "non-compliant"}
                 /\ r.status = "compliant" <=> Len(r.violations) = 0

\* The step that ends a completed run adds one to compliant when the job's
\* result is compliant and one to non_compliant otherwise, and no other
\* step changes either counter.
OutcomeCounted ==
    IF pc = "l260" /\ pc' = "idle"
    THEN LET r == MESSAGE_QUEUE[message].result
             c == IF r.status = "compliant" THEN 1 ELSE 0
         IN  /\ MESSAGE_QUEUE[message].status = "completed"
             /\ PROCESSING_STATS'.compliant = PROCESSING_STATS.compliant + c
             /\ PROCESSING_STATS'.non_compliant =
                    PROCESSING_STATS.non_compliant + (1 - c)
    ELSE /\ PROCESSING_STATS'.compliant = PROCESSING_STATS.compliant
         /\ PROCESSING_STATS'.non_compliant = PROCESSING_STATS.non_compliant

\* C24: in every result status is compliant if and only if the violation
\* list is empty, and a completed job is counted compliant exactly when its
\* result is compliant and non_compliant otherwise.
C24_StatusFromViolations == []StatusDerived /\ [][OutcomeCounted]_vars

\* C24 witness: one run has completed compliant and one non-compliant, both
\* jobs still queued with their results, and both are counted.
C24_Witness ==
    /\ pc = "idle"
    /\ PROCESSING_STATS.compliant = 1
    /\ PROCESSING_STATS.non_compliant = 1
    /\ \E i, j \in Indices(MESSAGE_QUEUE) :
          /\ MESSAGE_QUEUE[i].status = "completed"
          /\ MESSAGE_QUEUE[i].result.violations = <<>>
          /\ MESSAGE_QUEUE[i].result.status = "compliant"
          /\ MESSAGE_QUEUE[j].status = "completed"
          /\ Len(MESSAGE_QUEUE[j].result.violations) = 1
          /\ MESSAGE_QUEUE[j].result.status = "non-compliant"

\* The text of an id element: a value only when the section and the element
\* are in the message and the element has text.
HasText(section) == section.present /\ section.id \notin {"absent", "null"}

\* C26: for every message the parser accepts, the record's identifier is a
\* present value: the transaction id if the message has one, else the
\* message id if it has one, else the placeholder UNKNOWN.
C26_IdentifierResolved ==
    (/\ reply # <<>>
     /\ reply[1].op = "parse_pacs008_xml"
     /\ reply[1].payment_data.status_code = 200)
    => LET xml == reply[1].request
           id == reply[1].payment_data.id
       IN  /\ id \notin {"absent", "null"}
           /\ id = IF HasText(xml.CdtTrfTxInf) THEN xml.CdtTrfTxInf.id
                   ELSE IF HasText(xml.GrpHdr) THEN xml.GrpHdr.id
                   ELSE "UNKNOWN"

\* C27: a job that is pending, processing or failed has no result and a job
\* that is completed has one, in every state between worker runs.
C27_ResultOnlyWhenCompleted ==
    pc = "idle" =>
        \A i \in Indices(MESSAGE_QUEUE) :
            MESSAGE_QUEUE[i].result.set
                <=> MESSAGE_QUEUE[i].status = "completed"

\* C28: the in-flight counter is never negative; it is one while a run is
\* between its increment and its decrement and is back to zero, the value it
\* had before the run started, once the run has completed or failed.
C28_InFlightRestored ==
    /\ PROCESSING_STATS.processing >= 0
    /\ PROCESSING_STATS.processing = IF pc = "l232" THEN 1 ELSE 0

\* C28 witness: runs have ended completed and failed and no run is in
\* progress.
C28_Witness ==
    /\ pc = "idle"
    /\ completedRuns >= 1
    /\ failedRuns >= 1
    /\ PROCESSING_STATS.processing = 0

\* The places of a scheme's rules in the library: category and index.
RulePositions(scheme) ==
    UNION { { <<c, i>> : i \in 1..Len(RULES_LIBRARY[scheme][c]) } :
              c \in Keys(RULES_LIBRARY[scheme]) }

\* C29: no two rules stored for one scheme have the same id.
C29_RuleIdsUnique ==
    \A scheme \in Keys(RULES_LIBRARY) :
        \A p, q \in RulePositions(scheme) :
            p # q => RULES_LIBRARY[scheme][p[1]][p[2]].id
                         # RULES_LIBRARY[scheme][q[1]][q[2]].id

\* A deletion removes the rulebook of the scheme named, when there is one,
\* and leaves every other scheme's rulebook as it was; when there is none it
\* answers not-found and changes nothing.
DeletesOnlyThatScheme ==
    (reply' # <<>> /\ reply'[1].op = "delete_rulebook") =>
        LET s == Upper(reply'[1].request.scheme)
        IN  IF Has(UPLOADED_RULEBOOKS, s)
            THEN /\ reply'[1].status_code = 200
                 /\ Keys(UPLOADED_RULEBOOKS') = Keys(UPLOADED_RULEBOOKS) \ {s}
                 /\ \A o \in Keys(UPLOADED_RULEBOOKS) \ {s} :
                        UPLOADED_RULEBOOKS'[o] = UPLOADED_RULEBOOKS[o]
            ELSE /\ reply'[1].status_code = 404
                 /\ UPLOADED_RULEBOOKS' = UPLOADED_RULEBOOKS

\* An evaluation for a scheme is tagged with an uploaded source exactly
\* when the collaborator answered and the scheme has a stored rulebook.
UploadedSourceOnlyWhenStored ==
    (/\ reply # <<>>
     /\ reply[1].op = "main_validate_payment"
     /\ reply[1].status_code = 200)
    => LET s == Upper(reply[1].request.scheme)
           tag == reply[1].result.rulebookSource
       IN  /\ StartsWithUploadedPdf(tag) =>
                  /\ Has(UPLOADED_RULEBOOKS, s)
                  /\ tag = UploadedPdfTag(UPLOADED_RULEBOOKS[s].filename)
           /\ (AiEnabled /\ ~reply[1].request.ai.raises
                  /\ ~Has(UPLOADED_RULEBOOKS, s))
                  => tag = "default-rulebook"

\* C30: deleting a scheme's uploaded rulebook removes exactly that one,
\* after which evaluation for the scheme uses no uploaded source; deleting
\* where there is none returns not-found and changes no stored rulebook.
C30_DeleteRemovesOneRulebook ==
    []UploadedSourceOnlyWhenStored /\ [][DeletesOnlyThatScheme]_vars

\* C30 witness: the SEPA rulebook has just been deleted while CHAPS keeps
\* its own.
C30_Witness ==
    /\ reply # <<>>
    /\ reply[1].op = "delete_rulebook"
    /\ reply[1].status_code = 200
    /\ reply[1].request.scheme = "sepa"
    /\ ~Has(UPLOADED_RULEBOOKS, "SEPA")
    /\ Has(UPLOADED_RULEBOOKS, "CHAPS")

====
